---- MODULE Spec2Model ----
(***************************************************************************)
(* Model of backend/app/tools/executor.py: CancelToken, CircuitBreaker,    *)
(* BreakerRegistry, ToolCache and ToolExecutor.execute.                    *)
(*                                                                         *)
(* Time is counted in whole seconds; datetime.now() is the variable clock. *)
(* The specifications:                                                     *)
(*   SpecBreaker    one CircuitBreaker object driven directly through its  *)
(*                  four methods (as the unit tests of the class do);      *)
(*   SpecToolCache  one ToolCache object driven directly through get and   *)
(*                  set;                                                   *)
(*   SpecKey        ToolCache.make_key applied to two (tool name, payload) *)
(*                  pairs;                                                 *)
(*   Spec           concurrent ToolExecutor.execute calls, one step per    *)
(*                  stretch of code between two suspension points (await); *)
(*   SpecCache      the same with caching enabled in every call;           *)
(*   SpecRetry, SpecRecovery, SpecShared, SpecTtl, SpecFresh, SpecTools,   *)
(*   SpecBurst      the same for other ranges of the arguments;            *)
(*   SpecRegistry   one BreakerRegistry driven directly;                   *)
(*   SpecLog        the calls with the metrics and logger calls they make; *)
(*   SpecLive       the calls under the fairness of the event loop.        *)
(***************************************************************************)
EXTENDS Integers, Sequences, FiniteSets, TLC

\* ------------------------------------------------------------------ bounds
MaxTime == 4
MaxThreshold == 2
MaxWindow == 2
MaxHalfOpen == 2
\* cap on the number of record_failure calls made in SpecBreaker
MaxFailures == 4
\* number of execute calls that can be in progress together
NumCalls == 2
\* largest ToolConfig.retry_count
MaxRetry == 1
\* largest cache TTL in seconds
MaxTtl == 1
\* last second of the executor's clock
MaxClock == 1
\* breaker_window_seconds and breaker_half_open_seconds of the ToolConfig
\* the execute calls are made with
BreakerWindow == 1
BreakerHalfOpen == 1
\* number of distinct values the unit of work returns for one payload
NumValues == 1
\* largest number of fields of a payload
MaxFields == 2
\* cap on the number of set calls made in SpecToolCache
MaxSets == 2
\* cap on the number of get_or_create calls made in SpecRegistry
MaxCreates == 3
\* largest cache_ttl_seconds of the calls of SpecCache
CacheTtl == 2
\* breaker_failure_threshold of the calls of SpecRecovery
RecoveryThreshold == 3
\* smallest and largest retry_jitter_min_ms / retry_jitter_max_ms
MinJitter == 1
MaxJitter == 2

\* --------------------------------------------------------------- constants
CLOSED == "closed"
OPEN == "open"
HALF_OPEN == "half_open"
BreakerState == {CLOSED, OPEN, HALF_OPEN}

\* Python None for an optional datetime (timestamps are >= 0).
None == -1

\* tool names and request payloads
Tools == {"t1", "t2"}
\* A payload (a pydantic model instance) is the list of its <<field, value>>
\* pairs in the order model_dump() yields them.
DummyPayload(value) == << <<"value", value>> >>
Payloads == {DummyPayload("test1"), DummyPayload("test2")}
CallIds == 1..NumCalls

VARIABLES clock, brk, last, hist, registry, cache, call

breakerVars == <<brk, last, hist>>
executorVars == <<registry, cache, call>>
vars == <<clock, brk, last, hist, registry, cache, call>>

\* ------------------------------------------------------- CircuitBreaker
\* The dataclass constructor: state CLOSED, no failures, opened_at None.
CircuitBreaker(failure_threshold, window_seconds, half_open_seconds) ==
    [failure_threshold |-> failure_threshold,
     window_seconds |-> window_seconds,
     half_open_seconds |-> half_open_seconds,
     state |-> CLOSED,
     failure_times |-> << >>,
     opened_at |-> None]

\* Variant: a success resets the breaker in every state.
record_success_always(b) ==
    [b EXCEPT !.state = CLOSED, !.failure_times = << >>, !.opened_at = None]

\* Variant: a success in half-open closes the breaker but keeps the history.
record_success_keep(b) ==
    IF b.state = HALF_OPEN
    THEN [b EXCEPT !.state = CLOSED, !.opened_at = None]
    ELSE b

record_success(b) ==
    IF b.state = HALF_OPEN
    THEN [b EXCEPT !.state = CLOSED, !.failure_times = << >>, !.opened_at = None]
    ELSE b

\* [t for t in failure_times if t > cutoff]
PruneOlder(times, cutoff) == SelectSeq(times, LAMBDA t : t > cutoff)

\* Variant: the breaker opens without the time of opening being stamped.
record_failure_unstamped(b, now) ==
    LET cutoff == now - b.window_seconds
        times == Append(PruneOlder(b.failure_times, cutoff), now)
    IN  IF Len(times) >= b.failure_threshold
        THEN [b EXCEPT !.failure_times = times, !.state = OPEN]
        ELSE [b EXCEPT !.failure_times = times]

\* Variant: the breaker opens only above the threshold.
record_failure_above(b, now) ==
    LET cutoff == now - b.window_seconds
        times == Append(PruneOlder(b.failure_times, cutoff), now)
    IN  IF Len(times) > b.failure_threshold
        THEN [b EXCEPT !.failure_times = times, !.state = OPEN, !.opened_at = now]
        ELSE [b EXCEPT !.failure_times = times]

\* Variant: old failures are not removed.
record_failure_noprune(b, now) ==
    LET times == Append(b.failure_times, now)
    IN  IF Len(times) >= b.failure_threshold
        THEN [b EXCEPT !.failure_times = times, !.state = OPEN, !.opened_at = now]
        ELSE [b EXCEPT !.failure_times = times]

\* Variant: a failure exactly window_seconds old is still counted.
record_failure_inclusive(b, now) ==
    LET cutoff == now - b.window_seconds
        times == Append(SelectSeq(b.failure_times, LAMBDA t : t >= cutoff), now)
    IN  IF Len(times) >= b.failure_threshold
        THEN [b EXCEPT !.failure_times = times, !.state = OPEN, !.opened_at = now]
        ELSE [b EXCEPT !.failure_times = times]

record_failure(b, now) ==
    LET cutoff == now - b.window_seconds
        times == Append(PruneOlder(b.failure_times, cutoff), now)
    IN  IF Len(times) >= b.failure_threshold
        THEN [b EXCEPT !.failure_times = times, !.state = OPEN, !.opened_at = now]
        ELSE [b EXCEPT !.failure_times = times]

\* Variant: an open breaker goes half-open without waiting for the cooldown.
check_and_update_state_nowait(b, now) ==
    IF b.state = OPEN /\ b.opened_at # None
    THEN [b EXCEPT !.state = HALF_OPEN]
    ELSE b

\* Variant: the cooldown must be strictly exceeded.
check_and_update_state_strict(b, now) ==
    IF /\ b.state = OPEN
       /\ b.opened_at # None
       /\ now - b.opened_at > b.half_open_seconds
    THEN [b EXCEPT !.state = HALF_OPEN]
    ELSE b

\* The breaker after the call; the value returned is its state field.
\* Variant: an Open breaker never becomes Half-Open.
check_and_update_state_stuck(b, now) == b

check_and_update_state(b, now) ==
    IF /\ b.state = OPEN
       /\ b.opened_at # None
       /\ now - b.opened_at >= b.half_open_seconds
    THEN [b EXCEPT !.state = HALF_OPEN]
    ELSE b

\* The value returned by is_open; the breaker after the call is
\* check_and_update_state(b, now).
is_open(b, now) == check_and_update_state(b, now).state = OPEN

\* Time passes: datetime.now() moves on by one second.
Tick ==
    /\ clock < MaxTime
    /\ clock' = clock + 1
    /\ UNCHANGED <<breakerVars, executorVars>>

\* No method of brk has been called yet.
NoCall == [op |-> "none", now |-> 0, pre |-> CircuitBreaker(1, 1, 1), ret |-> CLOSED]

\* ------------------------------------------------------ BreakerRegistry
NoBreaker == [state |-> "absent"]

\* BreakerRegistry.__init__: no breaker for any tool.
BreakerRegistry == [t \in Tools |-> NoBreaker]

\* Variant: every call installs a breaker built from its parameters.
get_or_create_replace(reg, tool_name, failure_threshold, window_seconds, half_open_seconds) ==
    [reg EXCEPT ![tool_name] =
         CircuitBreaker(failure_threshold, window_seconds, half_open_seconds)]

\* The registry after get_or_create; the breaker returned is the entry of
\* tool_name in it.
get_or_create(reg, tool_name, failure_threshold, window_seconds, half_open_seconds) ==
    IF reg[tool_name] = NoBreaker
    THEN [reg EXCEPT ![tool_name] =
              CircuitBreaker(failure_threshold, window_seconds, half_open_seconds)]
    ELSE reg

\* ------------------------------------------------------------ ToolCache
NoEntry == [ttl_seconds |-> -1]

\* The field names payloads are built from, in the order sort_keys puts
\* them, and the values a field takes in JSON mode.
FieldOrder == <<"unit", "value">>
FieldValues == {"test1", "test2"}
Rank(name) == CHOOSE i \in 1..Len(FieldOrder) : FieldOrder[i] = name

\* payload.model_dump(mode="json"): the dict of the fields, in their order.
model_dump(payload) == payload

\* Variant: json.dumps without sort_keys keeps the order of the dict.
json_dumps_unsorted(data) == data

\* json.dumps(data, sort_keys=True): the pairs in the order of their names.
json_dumps(data) ==
    LET n == Len(data)
        pos(i) == 1 + Cardinality({j \in 1..n : Rank(data[j][1]) < Rank(data[i][1])})
    IN  [p \in 1..n |-> data[CHOOSE i \in 1..n : pos(i) = p]]

\* hashlib.sha256(text.encode()).hexdigest(): the digest stands for the
\* text it was computed from (no two texts of the model collide).
sha256(text) == text

\* Variant: the key does not depend on the payload.
make_key_tool_only(tool_name, payload) ==
    <<tool_name, sha256(json_dumps(<< >>))>>

\* f"{tool_name}:{hash_digest}"
make_key(tool_name, payload) ==
    <<tool_name, sha256(json_dumps(model_dump(payload)))>>

Keys == {make_key(t, p) : t \in Tools, p \in Payloads}

\* ToolCache.__init__
ToolCache == [k \in Keys |-> NoEntry]

\* Variant: an entry is still served when exactly ttl_seconds old.
is_fresh_inclusive(entry, now) == now - entry.cached_at <= entry.ttl_seconds

\* CacheEntry.is_fresh
is_fresh(entry, now) == now - entry.cached_at < entry.ttl_seconds

\* ToolCache.get: the value returned (NoEntry stands for None) ...
CacheGetValue(c, key, now) ==
    IF c[key] # NoEntry /\ is_fresh(c[key], now) THEN c[key] ELSE NoEntry

\* Variant: a lookup sweeps every expired entry out of the map.
CacheGet_sweep(c, key, now) ==
    [k \in DOMAIN c |-> IF c[k] # NoEntry /\ ~is_fresh(c[k], now)
                        THEN NoEntry ELSE c[k]]

\* ... and the map after the call (an expired entry is deleted).
CacheGet(c, key, now) ==
    IF c[key] # NoEntry /\ ~is_fresh(c[key], now)
    THEN [c EXCEPT ![key] = NoEntry]
    ELSE c

\* ToolCache.set; value is the pair (result, fetched_at).
CacheSet(c, key, result, fetched_at, ttl_seconds, now) ==
    [c EXCEPT ![key] = [result |-> result, fetched_at |-> fetched_at,
                        cached_at |-> now, ttl_seconds |-> ttl_seconds]]

\* --------------------------------------------------------- ToolExecutor
\* The values fn(payload) can return.
Results(payload) == {<<payload, i>> : i \in 1..NumValues}
NoResult == << << >>, 0 >>

\* One execute call.  pc is the position of the coroutine:
\*   idle      not called yet
\*   running   suspended in await asyncio.wait_for(fn(payload), ...)
\*   sleeping  suspended in await self._sleep(...)
\*   done      returned or raised: outcome is "ToolResult" or the exception,
\*             value / fetched_at / cache_hit are the ToolResult's fields
\* The arguments and local variables of the coroutine (retry_count, ttl,
\* now, attempt, last_error) exist while it is in progress; shared (whether
\* the caller passed its cache) stays known to the caller.
\* cancelled is the flag of the caller's CancelToken, which outlives the
\* call.  inv_state is the state of the breaker at the moment the invocation
\* of fn that is in flight began.  fn_outcome is how the call's latest
\* invocation of fn ended: "none" (not invoked, or still in flight for the
\* first time), "returned", "timeout", "error" or "cancelled" (fn raised
\* ToolCancelledError).  kinds is the set of the ways the failed attempts of
\* the call in progress ended; sleep_ms is the duration of the backoff sleep
\* the call is suspended in.  ttl is the cache_ttl_seconds the call works
\* with, arg_ttl the argument and cfg_ttl config.cache_ttl_seconds.
IdleCall ==
    [pc |-> "idle", tool |-> "t1", payload |-> DummyPayload("test1"), retry_count |-> 0,
     ttl |-> 0, shared |-> FALSE, cancelled |-> FALSE, now |-> 0,
     attempt |-> 0, last_error |-> "none", inv_state |-> "none",
     outcome |-> "none", value |-> NoResult, fetched_at |-> None,
     cache_hit |-> FALSE, fn_outcome |-> "none", arg_ttl |-> 0, cfg_ttl |-> 0,
     jitter_min |-> 0, jitter_max |-> 0, sleep_ms |-> 0, kinds |-> {}]

InitExecutorVars ==
    /\ registry = BreakerRegistry
    /\ cache = ToolCache
    /\ call = [c \in CallIds |-> IdleCall]

Init ==
    /\ clock = 0
    /\ brk = CircuitBreaker(1, 1, 1)
    /\ last = NoCall
    /\ hist = << >>
    /\ InitExecutorVars

\* execute raises exc: the coroutine is gone, the caller holds the exception.
Raise(k, exc) ==
    [IdleCall EXCEPT !.pc = "done", !.tool = k.tool, !.payload = k.payload,
                     !.shared = k.shared,
                     !.cancelled = k.cancelled, !.fn_outcome = k.fn_outcome,
                     !.outcome = exc]

\* execute returns ToolResult(value, Provenance(fetched_at, cache_hit)).
\* For a result served from the cache, now stays as the time of the hit.
Return(k, value, fetched_at, cache_hit) ==
    [IdleCall EXCEPT !.pc = "done", !.tool = k.tool, !.payload = k.payload,
                     !.shared = k.shared,
                     !.cancelled = k.cancelled, !.fn_outcome = k.fn_outcome,
                     !.now = IF cache_hit THEN k.now ELSE 0,
                     !.outcome = "ToolResult", !.value = value,
                     !.fetched_at = fetched_at, !.cache_hit = cache_hit]

\* Variant: the breaker check lets every call through.
Rejected_never(b, now) == FALSE

\* The breaker check of execute: whether the call is rejected.
Rejected(b, now) == is_open(b, now)

\* Variant: the attempt loop does not look at the token.
StartAttempt_nocheck(k, b) ==
    [k EXCEPT !.pc = "running", !.inv_state = b.state]

\* One iteration of the attempt loop up to its await: cancellation check,
\* then the invocation of fn.
StartAttempt(k, b) ==
    IF k.cancelled
    THEN Raise(k, "ToolCancelledError")
    ELSE [k EXCEPT !.pc = "running", !.inv_state = b.state]

\* The caller flips the cancel token of a call in progress.
Cancel(c) ==
    /\ call[c].pc \in {"running", "sleeping"}
    /\ ~call[c].cancelled
    /\ call' = [call EXCEPT ![c].cancelled = TRUE]
    /\ UNCHANGED <<clock, brk, last, registry, cache>>

\* Time passes while execute calls are in progress.
TimePasses ==
    /\ clock < MaxClock
    /\ clock' = clock + 1
    /\ UNCHANGED <<breakerVars, executorVars>>

\* Variant: the argument alone decides.
EffectiveTtl_arg_only(arg_ttl, cfg_ttl) == arg_ttl

\* cache_ttl_seconds = cache_ttl_seconds or config.cache_ttl_seconds
EffectiveTtl(arg_ttl, cfg_ttl) == IF arg_ttl # 0 THEN arg_ttl ELSE cfg_ttl

\* Variant: the breaker check comes before the cache lookup.
ExecuteFrom_breaker_first(reg, ch, now, tool, payload, retry_count, arg_ttl, cfg_ttl, shared, jitter) ==
    LET b == reg[tool]
        ttl == EffectiveTtl(arg_ttl, cfg_ttl)
        key == make_key(tool, payload)
        lookup == ttl > 0
        mine == IF shared THEN ch ELSE ToolCache
        entry == IF lookup THEN CacheGetValue(mine, key, now) ELSE NoEntry
        ch1 == IF lookup /\ shared THEN CacheGet(ch, key, now) ELSE ch
        k == [IdleCall EXCEPT !.tool = tool, !.payload = payload,
                              !.retry_count = retry_count, !.ttl = ttl,
                              !.arg_ttl = arg_ttl, !.cfg_ttl = cfg_ttl,
                              !.jitter_min = jitter[1], !.jitter_max = jitter[2],
                              !.shared = shared, !.now = now]
        b1 == check_and_update_state(b, now)
    IN  IF Rejected(b, now)
        THEN [reg |-> [reg EXCEPT ![tool] = b1], cache |-> ch,
              call |-> Raise(k, "ToolCircuitOpenError")]
        ELSE IF entry # NoEntry
        THEN [reg |-> [reg EXCEPT ![tool] = b1], cache |-> ch1,
              call |-> Return(k, entry.result, entry.fetched_at, TRUE)]
        ELSE IF retry_count < 0
        \* range(retry_count + 1) is empty: the loop body never runs
        THEN [reg |-> [reg EXCEPT ![tool] = b1], cache |-> ch1,
              call |-> Raise(k, "ToolExecutionError")]
        ELSE [reg |-> [reg EXCEPT ![tool] = b1], cache |-> ch1,
              call |-> StartAttempt(k, b1)]

\* Variant: a cache hit is stamped with the time of the hit.
ExecuteFrom_hit_now(reg, ch, now, tool, payload, retry_count, arg_ttl, cfg_ttl, shared, jitter) ==
    LET b == reg[tool]
        ttl == EffectiveTtl(arg_ttl, cfg_ttl)
        key == make_key(tool, payload)
        lookup == ttl > 0
        mine == IF shared THEN ch ELSE ToolCache
        entry == IF lookup THEN CacheGetValue(mine, key, now) ELSE NoEntry
        ch1 == IF lookup /\ shared THEN CacheGet(ch, key, now) ELSE ch
        k == [IdleCall EXCEPT !.tool = tool, !.payload = payload,
                              !.retry_count = retry_count, !.ttl = ttl,
                              !.arg_ttl = arg_ttl, !.cfg_ttl = cfg_ttl,
                              !.jitter_min = jitter[1], !.jitter_max = jitter[2],
                              !.shared = shared, !.now = now]
        b1 == check_and_update_state(b, now)
    IN  IF entry # NoEntry
        THEN [reg |-> reg, cache |-> ch1,
              call |-> Return(k, entry.result, now, TRUE)]
        ELSE IF Rejected(b, now)
        THEN [reg |-> [reg EXCEPT ![tool] = b1], cache |-> ch1,
              call |-> Raise(k, "ToolCircuitOpenError")]
        ELSE IF retry_count < 0
        \* range(retry_count + 1) is empty: the loop body never runs
        THEN [reg |-> [reg EXCEPT ![tool] = b1], cache |-> ch1,
              call |-> Raise(k, "ToolExecutionError")]
        ELSE [reg |-> [reg EXCEPT ![tool] = b1], cache |-> ch1,
              call |-> StartAttempt(k, b1)]

\* Variant: a call made without cache= works on the cache the other calls
\* share.
ExecuteFrom_one_cache(reg, ch, now, tool, payload, retry_count, arg_ttl, cfg_ttl, shared, jitter) ==
    LET b == reg[tool]
        ttl == EffectiveTtl(arg_ttl, cfg_ttl)
        key == make_key(tool, payload)
        lookup == ttl > 0
        entry == IF lookup THEN CacheGetValue(ch, key, now) ELSE NoEntry
        ch1 == IF lookup THEN CacheGet(ch, key, now) ELSE ch
        k == [IdleCall EXCEPT !.tool = tool, !.payload = payload,
                              !.retry_count = retry_count, !.ttl = ttl,
                              !.arg_ttl = arg_ttl, !.cfg_ttl = cfg_ttl,
                              !.jitter_min = jitter[1], !.jitter_max = jitter[2],
                              !.shared = shared, !.now = now]
        b1 == check_and_update_state(b, now)
    IN  IF entry # NoEntry
        THEN [reg |-> reg, cache |-> ch1,
              call |-> Return(k, entry.result, entry.fetched_at, TRUE)]
        ELSE IF Rejected(b, now)
        THEN [reg |-> [reg EXCEPT ![tool] = b1], cache |-> ch1,
              call |-> Raise(k, "ToolCircuitOpenError")]
        ELSE IF retry_count < 0
        \* range(retry_count + 1) is empty: the loop body never runs
        THEN [reg |-> [reg EXCEPT ![tool] = b1], cache |-> ch1,
              call |-> Raise(k, "ToolExecutionError")]
        ELSE [reg |-> [reg EXCEPT ![tool] = b1], cache |-> ch1,
              call |-> StartAttempt(k, b1)]

\* execute from its first line to the cancellation check (lines 334-352):
\* an omitted breaker is taken from the registry before the token is looked
\* at.
\* execute from the cache lookup to its first suspension point or to its
\* return (lines 359-403): cache lookup, breaker check, first attempt.
\*   shared: a cache shared between calls is passed as cache=; otherwise the
\*   call works on a ToolCache() of its own, which is empty and is dropped
\*   when the call returns.
ExecuteFrom(reg, ch, now, tool, payload, retry_count, arg_ttl, cfg_ttl, shared, jitter) ==
    LET b == reg[tool]
        ttl == EffectiveTtl(arg_ttl, cfg_ttl)
        key == make_key(tool, payload)
        lookup == ttl > 0
        mine == IF shared THEN ch ELSE ToolCache
        entry == IF lookup THEN CacheGetValue(mine, key, now) ELSE NoEntry
        ch1 == IF lookup /\ shared THEN CacheGet(ch, key, now) ELSE ch
        k == [IdleCall EXCEPT !.tool = tool, !.payload = payload,
                              !.retry_count = retry_count, !.ttl = ttl,
                              !.arg_ttl = arg_ttl, !.cfg_ttl = cfg_ttl,
                              !.jitter_min = jitter[1], !.jitter_max = jitter[2],
                              !.shared = shared, !.now = now]
        b1 == check_and_update_state(b, now)
    IN  IF entry # NoEntry
        THEN [reg |-> reg, cache |-> ch1,
              call |-> Return(k, entry.result, entry.fetched_at, TRUE)]
        ELSE IF Rejected(b, now)
        THEN [reg |-> [reg EXCEPT ![tool] = b1], cache |-> ch1,
              call |-> Raise(k, "ToolCircuitOpenError")]
        ELSE IF retry_count < 0
        \* range(retry_count + 1) is empty: the loop body never runs
        THEN [reg |-> [reg EXCEPT ![tool] = b1], cache |-> ch1,
              call |-> Raise(k, "ToolExecutionError")]
        ELSE [reg |-> [reg EXCEPT ![tool] = b1], cache |-> ch1,
              call |-> StartAttempt(k, b1)]

\* The arguments execute calls are made with: P.tools, P.payloads,
\* P.retry_counts, P.thresholds (config.breaker_failure_threshold),
\* P.arg_ttls (cache_ttl_seconds), P.cfg_ttls (config.cache_ttl_seconds) and
\* P.shared (whether cache= is given) are the sets they are drawn from;
\* P.jitter is <<config.retry_jitter_min_ms, config.retry_jitter_max_ms>>.
\* The actions of the calls leave hist to the specification that uses them.

\* Variant: a call cancelled at entry counts as a failure of the tool.
ExecuteCancelled_counts(c, P) ==
    /\ call[c].pc \in {"idle", "done"}
    /\ \E tool \in P.tools, payload \in P.payloads, n \in P.thresholds :
          /\ registry' = [get_or_create(registry, tool, n, BreakerWindow, BreakerHalfOpen)
                            EXCEPT ![tool] = record_failure(@, clock)]
          /\ call' = [call EXCEPT ![c] =
                        Raise([IdleCall EXCEPT !.tool = tool, !.payload = payload,
                                               !.cancelled = TRUE],
                              "ToolCancelledError")]
    /\ UNCHANGED <<clock, brk, last, cache>>

\* execute is called with a token that is already cancelled.
ExecuteCancelled(c, P) ==
    /\ call[c].pc \in {"idle", "done"}
    /\ \E tool \in P.tools, payload \in P.payloads, n \in P.thresholds :
          /\ registry' = get_or_create(registry, tool, n, BreakerWindow, BreakerHalfOpen)
          /\ call' = [call EXCEPT ![c] =
                        Raise([IdleCall EXCEPT !.tool = tool, !.payload = payload,
                                               !.cancelled = TRUE],
                              "ToolCancelledError")]
    /\ UNCHANGED <<clock, brk, last, cache>>

\* execute is called with a token that is not cancelled (or with none).
Execute(c, P) ==
    /\ call[c].pc \in {"idle", "done"}
    /\ \E tool \in P.tools, payload \in P.payloads,
          retry_count \in P.retry_counts, n \in P.thresholds,
          arg_ttl \in P.arg_ttls, cfg_ttl \in P.cfg_ttls, shared \in P.shared :
          LET reg == get_or_create(registry, tool, n, BreakerWindow, BreakerHalfOpen)
              r == ExecuteFrom(reg, cache, clock, tool, payload, retry_count,
                               arg_ttl, cfg_ttl, shared, P.jitter)
          IN  /\ registry' = r.reg
              /\ cache' = r.cache
              /\ call' = [call EXCEPT ![c] = r.call]
    /\ UNCHANGED <<clock, brk, last>>

\* random.uniform(a, b) in whole milliseconds.
uniform(a, b) == IF a <= b THEN a..b ELSE b..a

\* Variant: the retry follows the failure at once, without a backoff sleep.
AfterFailure_nosleep(k, error, jitter_ms) ==
    LET k1 == [k EXCEPT !.last_error = error, !.fn_outcome = error,
                        !.kinds = @ \cup {error}, !.inv_state = "none"]
    IN  IF k.attempt < k.retry_count
        THEN IF k.cancelled
             THEN Raise(k1, "ToolCancelledError")
             ELSE [k1 EXCEPT !.attempt = @ + 1, !.pc = "running"]
        ELSE IF error = "timeout"
             THEN Raise(k1, "ToolTimeoutError")
             ELSE Raise(k1, "ToolExecutionError")

\* Variant: when the attempts are exhausted a default result is returned.
AfterFailure_default(k, error, jitter_ms) ==
    LET k1 == [k EXCEPT !.last_error = error, !.fn_outcome = error,
                        !.kinds = @ \cup {error}, !.inv_state = "none"]
    IN  IF k.attempt < k.retry_count
        THEN IF k.cancelled
             THEN Raise(k1, "ToolCancelledError")
             ELSE [k1 EXCEPT !.pc = "sleeping", !.sleep_ms = jitter_ms]
        ELSE Return(k1, NoResult, None, FALSE)

\* Variant: one retry more than retry_count.
AfterFailure_extra(k, error, jitter_ms) ==
    LET k1 == [k EXCEPT !.last_error = error, !.fn_outcome = error,
                        !.kinds = @ \cup {error}, !.inv_state = "none"]
    IN  IF k.attempt <= k.retry_count
        THEN IF k.cancelled
             THEN Raise(k1, "ToolCancelledError")
             ELSE [k1 EXCEPT !.pc = "sleeping", !.sleep_ms = jitter_ms]
        ELSE IF error = "timeout"
             THEN Raise(k1, "ToolTimeoutError")
             ELSE Raise(k1, "ToolExecutionError")

\* After a failed attempt whose failure has been recorded on the breaker:
\* the call goes to its backoff sleep of jitter_ms, or gives up.
AfterFailure(k, error, jitter_ms) ==
    LET k1 == [k EXCEPT !.last_error = error, !.fn_outcome = error,
                        !.kinds = @ \cup {error}, !.inv_state = "none"]
    IN  IF k.attempt < k.retry_count
        THEN IF k.cancelled
             THEN Raise(k1, "ToolCancelledError")
             ELSE [k1 EXCEPT !.pc = "sleeping", !.sleep_ms = jitter_ms]
        ELSE IF error = "timeout"
             THEN Raise(k1, "ToolTimeoutError")
             ELSE Raise(k1, "ToolExecutionError")

\* Variant: the token is looked at once more when fn has returned.
AttemptSucceeds_checks_cancel(c) ==
    /\ call[c].pc = "running"
    /\ \E result \in Results(call[c].payload) :
          LET k == [call[c] EXCEPT !.fn_outcome = "returned"]
              fetched_at == clock
          IN  IF k.cancelled
              THEN /\ call' = [call EXCEPT ![c] = Raise(k, "ToolCancelledError")]
                   /\ UNCHANGED <<registry, cache>>
              ELSE /\ registry' = [registry EXCEPT ![k.tool] = record_success(@)]
                   /\ cache' = IF k.ttl > 0 /\ k.shared
                               THEN CacheSet(cache, make_key(k.tool, k.payload),
                                             result, fetched_at, k.ttl, k.now)
                               ELSE cache
                   /\ call' = [call EXCEPT ![c] = Return(k, result, fetched_at, FALSE)]
    /\ UNCHANGED <<clock, brk, last>>

\* The awaited fn(payload) returns result.
AttemptSucceeds(c) ==
    /\ call[c].pc = "running"
    /\ \E result \in Results(call[c].payload) :
          LET k == [call[c] EXCEPT !.fn_outcome = "returned"]
              fetched_at == clock
          IN  /\ registry' = [registry EXCEPT ![k.tool] = record_success(@)]
              /\ cache' = IF k.ttl > 0 /\ k.shared
                          THEN CacheSet(cache, make_key(k.tool, k.payload),
                                        result, fetched_at, k.ttl, k.now)
                          ELSE cache
              /\ call' = [call EXCEPT ![c] = Return(k, result, fetched_at, FALSE)]
    /\ UNCHANGED <<clock, brk, last>>

\* Variant: a failed attempt is recorded on the breaker of every tool.
AttemptFails_every_tool(c) ==
    /\ call[c].pc = "running"
    /\ \E error \in {"timeout", "error"},
          jitter_ms \in uniform(call[c].jitter_min, call[c].jitter_max) :
          /\ registry' = [t \in Tools |-> IF registry[t] = NoBreaker
                                         THEN NoBreaker
                                         ELSE record_failure(registry[t], clock)]
          /\ call' = [call EXCEPT ![c] = AfterFailure(@, error, jitter_ms)]
    /\ UNCHANGED <<clock, brk, last, cache>>

\* Variant: the failure is added to the list of failures the breaker had
\* when fn was invoked by the first of the calls, which was empty (the
\* update of a call that failed in between is lost).
AttemptFails_stale_list(c) ==
    /\ call[c].pc = "running"
    /\ \E error \in {"timeout", "error"},
          jitter_ms \in uniform(call[c].jitter_min, call[c].jitter_max) :
          /\ registry' = [registry EXCEPT ![call[c].tool] =
                            record_failure([@ EXCEPT !.failure_times = << >>], clock)]
          /\ call' = [call EXCEPT ![c] = AfterFailure(@, error, jitter_ms)]
    /\ UNCHANGED <<clock, brk, last, cache>>

\* Variant: a failed attempt stores a default value in the cache.
AttemptFails_caches(c) ==
    /\ call[c].pc = "running"
    /\ \E error \in {"timeout", "error"},
          jitter_ms \in uniform(call[c].jitter_min, call[c].jitter_max) :
          /\ registry' = [registry EXCEPT ![call[c].tool] = record_failure(@, clock)]
          /\ call' = [call EXCEPT ![c] = AfterFailure(@, error, jitter_ms)]
    /\ cache' = IF call[c].ttl > 0 /\ call[c].shared
                THEN CacheSet(cache, make_key(call[c].tool, call[c].payload),
                              NoResult, clock, call[c].ttl, call[c].now)
                ELSE cache
    /\ UNCHANGED <<clock, brk, last>>

\* Variant: only the failure of the last attempt is recorded on the breaker.
AttemptFails_final_only(c) ==
    /\ call[c].pc = "running"
    /\ \E error \in {"timeout", "error"},
          jitter_ms \in uniform(call[c].jitter_min, call[c].jitter_max) :
          /\ registry' = IF call[c].attempt < call[c].retry_count
                         THEN registry
                         ELSE [registry EXCEPT ![call[c].tool] = record_failure(@, clock)]
          /\ call' = [call EXCEPT ![c] = AfterFailure(@, error, jitter_ms)]
    /\ UNCHANGED <<clock, brk, last, cache>>

\* The awaited fn(payload) exceeds hard_timeout_ms ("timeout") or raises an
\* exception other than ToolCancelledError ("error").
AttemptFails(c) ==
    /\ call[c].pc = "running"
    /\ \E error \in {"timeout", "error"},
          jitter_ms \in uniform(call[c].jitter_min, call[c].jitter_max) :
          /\ registry' = [registry EXCEPT ![call[c].tool] = record_failure(@, clock)]
          /\ call' = [call EXCEPT ![c] = AfterFailure(@, error, jitter_ms)]
    /\ UNCHANGED <<clock, brk, last, cache>>

\* Variant: a ToolCancelledError raised by fn is handled like any other
\* exception.
AttemptCancelled_as_error(c) ==
    /\ call[c].pc = "running"
    /\ registry' = [registry EXCEPT ![call[c].tool] = record_failure(@, clock)]
    /\ call' = [call EXCEPT ![c] = AfterFailure(@, "cancelled", call[c].jitter_min)]
    /\ UNCHANGED <<clock, brk, last, cache>>

\* The awaited fn(payload) raises ToolCancelledError.
AttemptCancelled(c) ==
    /\ call[c].pc = "running"
    /\ call' = [call EXCEPT ![c] = Raise([@ EXCEPT !.fn_outcome = "cancelled"],
                                         "ToolCancelledError")]
    /\ UNCHANGED <<clock, brk, last, registry, cache>>

\* Variant: the loop index does not advance on a retry.
SleepReturns_same_attempt(c) ==
    /\ call[c].pc = "sleeping"
    /\ call' = [call EXCEPT ![c] =
                  StartAttempt([@ EXCEPT !.sleep_ms = 0], registry[call[c].tool])]
    /\ UNCHANGED <<clock, brk, last, registry, cache>>

\* The backoff sleep returns: next iteration of the attempt loop.
SleepReturns(c) ==
    /\ call[c].pc = "sleeping"
    /\ call' = [call EXCEPT ![c] =
                  StartAttempt([@ EXCEPT !.attempt = @ + 1, !.sleep_ms = 0],
                               registry[call[c].tool])]
    /\ UNCHANGED <<clock, brk, last, registry, cache>>

\* Spec: concurrent calls for one tool and one payload on a shared cache,
\* the TTL given by the cache_ttl_seconds argument.
SpecArgs ==
    [tools |-> {"t1"}, payloads |-> {DummyPayload("test1")}, retry_counts |-> 0..MaxRetry,
     thresholds |-> 1..MaxThreshold, arg_ttls |-> 0..MaxTtl, cfg_ttls |-> {0},
     shared |-> {TRUE}, jitter |-> <<MinJitter, MinJitter>>]

Next ==
    \/ TimePasses
    \/ \E c \in CallIds : ExecuteCancelled(c, SpecArgs) /\ UNCHANGED hist
    \/ \E c \in CallIds : Execute(c, SpecArgs) /\ UNCHANGED hist
    \/ \E c \in CallIds : AttemptSucceeds(c) /\ UNCHANGED hist
    \/ \E c \in CallIds : AttemptFails(c) /\ UNCHANGED hist
    \/ \E c \in CallIds : AttemptCancelled(c) /\ UNCHANGED hist
    \/ \E c \in CallIds : SleepReturns(c) /\ UNCHANGED hist
    \/ \E c \in CallIds : Cancel(c) /\ UNCHANGED hist

Spec == Init /\ [][Next]_vars

\* SpecCache: the same calls with caching enabled in every one of them:
\* cache_ttl_seconds is given, or is 0 and config.cache_ttl_seconds is used.
SpecCacheArgs ==
    [tools |-> {"t1"}, payloads |-> {DummyPayload("test1")},
     retry_counts |-> 0..MaxRetry, thresholds |-> 1..MaxThreshold,
     arg_ttls |-> 0..MaxTtl, cfg_ttls |-> {CacheTtl}, shared |-> {TRUE},
     jitter |-> <<MinJitter, MinJitter>>]

NextCache ==
    \/ TimePasses
    \/ \E c \in CallIds : ExecuteCancelled(c, SpecCacheArgs) /\ UNCHANGED hist
    \/ \E c \in CallIds : Execute(c, SpecCacheArgs) /\ UNCHANGED hist
    \/ \E c \in CallIds : AttemptSucceeds(c) /\ UNCHANGED hist
    \/ \E c \in CallIds : AttemptFails(c) /\ UNCHANGED hist
    \/ \E c \in CallIds : AttemptCancelled(c) /\ UNCHANGED hist
    \/ \E c \in CallIds : SleepReturns(c) /\ UNCHANGED hist
    \/ \E c \in CallIds : Cancel(c) /\ UNCHANGED hist

SpecCache == Init /\ [][NextCache]_vars

\* SpecRetry: calls whose retry_count ranges from -1 (the attempt loop runs
\* zero times) to MaxRetry, with a jitter interval of more than one value.
SpecRetryArgs ==
    [tools |-> {"t1"}, payloads |-> {DummyPayload("test1")},
     retry_counts |-> -1..MaxRetry, thresholds |-> {MaxThreshold},
     arg_ttls |-> 0..MaxTtl, cfg_ttls |-> {0}, shared |-> {TRUE},
     jitter |-> <<MinJitter, MaxJitter>>]

NextRetry ==
    \/ TimePasses
    \/ \E c \in CallIds : ExecuteCancelled(c, SpecRetryArgs) /\ UNCHANGED hist
    \/ \E c \in CallIds : Execute(c, SpecRetryArgs) /\ UNCHANGED hist
    \/ \E c \in CallIds : AttemptSucceeds(c) /\ UNCHANGED hist
    \/ \E c \in CallIds : AttemptFails(c) /\ UNCHANGED hist
    \/ \E c \in CallIds : AttemptCancelled(c) /\ UNCHANGED hist
    \/ \E c \in CallIds : SleepReturns(c) /\ UNCHANGED hist
    \/ \E c \in CallIds : Cancel(c) /\ UNCHANGED hist

SpecRetry == Init /\ [][NextRetry]_vars

\* SpecRecovery: one caller makes execute calls for one tool one after the
\* other, without retries, caching or cancellation.  hist is the log of the
\* calls that have ended: outcome, how the invocation of fn ended ("none"
\* when fn was not invoked), the time the call began and the time it ended.
RecoveryArgs ==
    [tools |-> {"t1"}, payloads |-> {DummyPayload("test1")},
     retry_counts |-> {0}, thresholds |-> {RecoveryThreshold},
     arg_ttls |-> {0}, cfg_ttls |-> {0}, shared |-> {TRUE},
     jitter |-> <<MinJitter, MinJitter>>]

MaxCalls == RecoveryThreshold + 3

Caller == 1

Logged(c) ==
    hist' = IF call'[c].pc = "done"
            THEN Append(hist, [outcome |-> call'[c].outcome,
                               fn |-> call'[c].fn_outcome,
                               now |-> IF call[c].pc = "running"
                                       THEN call[c].now ELSE clock,
                               at |-> clock])
            ELSE hist

NextRecovery ==
    \/ TimePasses
    \/ Len(hist) < MaxCalls /\ Execute(Caller, RecoveryArgs) /\ Logged(Caller)
    \/ AttemptSucceeds(Caller) /\ Logged(Caller)
    \/ AttemptFails(Caller) /\ Logged(Caller)

SpecRecovery == Init /\ [][NextRecovery]_vars

\* SpecShared: calls for one tool and either payload on a shared cache, with
\* caching enabled in every call and without retries.
SpecSharedArgs ==
    [tools |-> {"t1"}, payloads |-> Payloads, retry_counts |-> {0},
     thresholds |-> {MaxThreshold}, arg_ttls |-> 1..CacheTtl, cfg_ttls |-> {0},
     shared |-> {TRUE}, jitter |-> <<MinJitter, MinJitter>>]

NextShared ==
    \/ TimePasses
    \/ \E c \in CallIds : ExecuteCancelled(c, SpecSharedArgs) /\ UNCHANGED hist
    \/ \E c \in CallIds : Execute(c, SpecSharedArgs) /\ UNCHANGED hist
    \/ \E c \in CallIds : AttemptSucceeds(c) /\ UNCHANGED hist
    \/ \E c \in CallIds : AttemptFails(c) /\ UNCHANGED hist
    \/ \E c \in CallIds : AttemptCancelled(c) /\ UNCHANGED hist
    \/ \E c \in CallIds : Cancel(c) /\ UNCHANGED hist

SpecShared == Init /\ [][NextShared]_vars

\* SpecTtl: every call is made with cache_ttl_seconds = 0, under configs
\* whose cache_ttl_seconds is 0 or CacheTtl.
SpecTtlArgs ==
    [tools |-> {"t1"}, payloads |-> {DummyPayload("test1")}, retry_counts |-> {0},
     thresholds |-> {MaxThreshold}, arg_ttls |-> {0}, cfg_ttls |-> {0, CacheTtl},
     shared |-> {TRUE}, jitter |-> <<MinJitter, MinJitter>>]

NextTtl ==
    \/ TimePasses
    \/ \E c \in CallIds : ExecuteCancelled(c, SpecTtlArgs) /\ UNCHANGED hist
    \/ \E c \in CallIds : Execute(c, SpecTtlArgs) /\ UNCHANGED hist
    \/ \E c \in CallIds : AttemptSucceeds(c) /\ UNCHANGED hist
    \/ \E c \in CallIds : AttemptFails(c) /\ UNCHANGED hist
    \/ \E c \in CallIds : AttemptCancelled(c) /\ UNCHANGED hist
    \/ \E c \in CallIds : Cancel(c) /\ UNCHANGED hist

SpecTtl == Init /\ [][NextTtl]_vars

\* SpecFresh: calls for one tool and one payload with caching enabled, some
\* made with the cache the callers share and some without a cache argument.
SpecFreshArgs ==
    [tools |-> {"t1"}, payloads |-> {DummyPayload("test1")}, retry_counts |-> {0},
     thresholds |-> {MaxThreshold}, arg_ttls |-> 1..CacheTtl, cfg_ttls |-> {0},
     shared |-> {TRUE, FALSE}, jitter |-> <<MinJitter, MinJitter>>]

NextFresh ==
    \/ TimePasses
    \/ \E c \in CallIds : ExecuteCancelled(c, SpecFreshArgs) /\ UNCHANGED hist
    \/ \E c \in CallIds : Execute(c, SpecFreshArgs) /\ UNCHANGED hist
    \/ \E c \in CallIds : AttemptSucceeds(c) /\ UNCHANGED hist
    \/ \E c \in CallIds : AttemptFails(c) /\ UNCHANGED hist
    \/ \E c \in CallIds : AttemptCancelled(c) /\ UNCHANGED hist
    \/ \E c \in CallIds : Cancel(c) /\ UNCHANGED hist

SpecFresh == Init /\ [][NextFresh]_vars

\* ------------------------------------------------- metrics and logger
\* The calls execute makes on its ToolMetrics and ToolLogger, in order:
\* <<"record_latency", tool, outcome>>, <<"inc_error", tool, reason>>,
\* <<"inc_cache_hit", tool>> and <<"log_attempt", attempt, outcome>>.

\* ... from its first line to its first await or to its return, k1 being
\* the call after the step: a cache hit, a rejection by the breaker, or
\* nothing (a cancelled token, an empty attempt loop, a first attempt).
EntryCalls(k1) ==
    IF k1.outcome = "ToolResult" /\ k1.cache_hit
    THEN << <<"record_latency", k1.tool, "cache_hit">>,
            <<"inc_cache_hit", k1.tool>>,
            <<"log_attempt", 0, "cache_hit">> >>
    ELSE IF k1.outcome = "ToolCircuitOpenError"
    THEN << <<"record_latency", k1.tool, "breaker_open">>,
            <<"inc_error", k1.tool, "breaker_open">>,
            <<"log_attempt", 0, "breaker_open">> >>
    ELSE << >>

\* Variant: the attempts are logged under the loop index.
AttemptCalls_loop_index(k, k1) ==
    IF k1.fn_outcome = "returned"
    THEN << <<"record_latency", k.tool, "success">>,
            <<"log_attempt", k.attempt, "success">> >>
    ELSE IF k1.fn_outcome = "timeout"
    THEN << <<"inc_error", k.tool, "timeout">>,
            <<"log_attempt", k.attempt, "timeout">> >>
    ELSE IF k1.fn_outcome = "cancelled"
    THEN << <<"record_latency", k.tool, "cancelled">>,
            <<"log_attempt", k.attempt, "cancelled">> >>
    ELSE << <<"inc_error", k.tool, "execution_error">>,
            <<"log_attempt", k.attempt, "error">> >>

\* Variant: only the attempt that ends the call is logged.
AttemptCalls_last_only(k, k1) ==
    IF k1.pc # "done"
    THEN << >>
    ELSE IF k1.fn_outcome = "returned"
    THEN << <<"record_latency", k.tool, "success">>,
            <<"log_attempt", k.attempt + 1, "success">> >>
    ELSE IF k1.fn_outcome = "timeout"
    THEN << <<"inc_error", k.tool, "timeout">>,
            <<"log_attempt", k.attempt + 1, "timeout">> >>
    ELSE IF k1.fn_outcome = "cancelled"
    THEN << <<"record_latency", k.tool, "cancelled">>,
            <<"log_attempt", k.attempt + 1, "cancelled">> >>
    ELSE << <<"inc_error", k.tool, "execution_error">>,
            <<"log_attempt", k.attempt + 1, "error">> >>

\* ... when the fn awaited by the call k has ended, k1 being the call after
\* the step (k1.fn_outcome tells how fn ended).
AttemptCalls(k, k1) ==
    IF k1.fn_outcome = "returned"
    THEN << <<"record_latency", k.tool, "success">>,
            <<"log_attempt", k.attempt + 1, "success">> >>
    ELSE IF k1.fn_outcome = "timeout"
    THEN << <<"inc_error", k.tool, "timeout">>,
            <<"log_attempt", k.attempt + 1, "timeout">> >>
    ELSE IF k1.fn_outcome = "cancelled"
    THEN << <<"record_latency", k.tool, "cancelled">>,
            <<"log_attempt", k.attempt + 1, "cancelled">> >>
    ELSE << <<"inc_error", k.tool, "execution_error">>,
            <<"log_attempt", k.attempt + 1, "error">> >>

\* SpecLog: concurrent calls with retries on a shared cache, each caller
\* with observers of its own.  hist[c] is the list of the calls made on the
\* metrics and the logger of caller c by its latest execute call.
SpecLogArgs ==
    [tools |-> {"t1"}, payloads |-> {DummyPayload("test1")},
     retry_counts |-> {MaxRetry}, thresholds |-> {MaxThreshold},
     arg_ttls |-> 0..MaxTtl, cfg_ttls |-> {0}, shared |-> {TRUE},
     jitter |-> <<MinJitter, MinJitter>>]

InitLog ==
    /\ clock = 0
    /\ brk = CircuitBreaker(1, 1, 1)
    /\ last = NoCall
    /\ hist = [c \in CallIds |-> << >>]
    /\ InitExecutorVars

NextLog ==
    \/ TimePasses
    \/ \E c \in CallIds :
          /\ ExecuteCancelled(c, SpecLogArgs)
          /\ hist' = [hist EXCEPT ![c] = << >>]
    \/ \E c \in CallIds :
          /\ Execute(c, SpecLogArgs)
          /\ hist' = [hist EXCEPT ![c] = EntryCalls(call'[c])]
    \/ \E c \in CallIds :
          /\ AttemptSucceeds(c)
          /\ hist' = [hist EXCEPT ![c] = @ \o AttemptCalls(call[c], call'[c])]
    \/ \E c \in CallIds :
          /\ AttemptFails(c)
          /\ hist' = [hist EXCEPT ![c] = @ \o AttemptCalls(call[c], call'[c])]
    \/ \E c \in CallIds :
          /\ AttemptCancelled(c)
          /\ hist' = [hist EXCEPT ![c] = @ \o AttemptCalls(call[c], call'[c])]
    \/ \E c \in CallIds : SleepReturns(c) /\ UNCHANGED hist
    \/ \E c \in CallIds : Cancel(c) /\ UNCHANGED hist

SpecLog == InitLog /\ [][NextLog]_vars

\* SpecLive: concurrent calls with retries, under the scheduling the event
\* loop gives them: an awaited fn ends (it returns, raises, or the timer of
\* wait_for fires) and an awaited sleep returns.  hist[c] counts what the
\* latest call of caller c has done: the invocations of fn it has made and
\* the backoff sleeps it has begun, next to its retry_count.  The counters
\* stop at CountCap.
SpecLiveArgs ==
    [tools |-> {"t1"}, payloads |-> {DummyPayload("test1")},
     retry_counts |-> 0..MaxRetry, thresholds |-> {MaxThreshold},
     arg_ttls |-> {0}, cfg_ttls |-> {0}, shared |-> {TRUE},
     jitter |-> <<MinJitter, MinJitter>>]

CountCap == MaxRetry + 3

NoCount == [retry_count |-> 0, attempts |-> 0, sleeps |-> 0]

Counted(c) ==
    LET k == call[c]
        k1 == call'[c]
        up(n) == IF n < CountCap THEN n + 1 ELSE n
    IN  hist' = [hist EXCEPT ![c] =
                   IF k.pc \in {"idle", "done"}
                   THEN [retry_count |-> IF k1.pc = "running" THEN k1.retry_count ELSE 0,
                         attempts |-> IF k1.pc = "running" THEN 1 ELSE 0,
                         sleeps |-> 0]
                   ELSE IF k.pc = "running" /\ k1.pc = "sleeping"
                   THEN [@ EXCEPT !.sleeps = up(@)]
                   ELSE IF k.pc = "sleeping" /\ k1.pc = "running"
                   THEN [@ EXCEPT !.attempts = up(@)]
                   ELSE @]

InitLive ==
    /\ clock = 0
    /\ brk = CircuitBreaker(1, 1, 1)
    /\ last = NoCall
    /\ hist = [c \in CallIds |-> NoCount]
    /\ InitExecutorVars

\* The fn awaited by call c ends in one of the three ways.
FnCompletes(c) ==
    /\ AttemptSucceeds(c) \/ AttemptFails(c) \/ AttemptCancelled(c)
    /\ Counted(c)

\* The sleep awaited by call c returns.
SleepCompletes(c) == SleepReturns(c) /\ Counted(c)

NextLive ==
    \/ TimePasses
    \/ \E c \in CallIds : ExecuteCancelled(c, SpecLiveArgs) /\ Counted(c)
    \/ \E c \in CallIds : Execute(c, SpecLiveArgs) /\ Counted(c)
    \/ \E c \in CallIds : FnCompletes(c)
    \/ \E c \in CallIds : SleepCompletes(c)
    \/ \E c \in CallIds : Cancel(c) /\ UNCHANGED hist

SpecLive ==
    /\ InitLive
    /\ [][NextLive]_vars
    /\ \A c \in CallIds : WF_vars(FnCompletes(c)) /\ WF_vars(SleepCompletes(c))

\* SpecTools: concurrent calls for either tool, without retries or caching.
\* hist is the set of the tools an attempt of which has failed.
SpecToolsArgs ==
    [tools |-> Tools, payloads |-> {DummyPayload("test1")}, retry_counts |-> {0},
     thresholds |-> {MaxThreshold}, arg_ttls |-> {0}, cfg_ttls |-> {0},
     shared |-> {TRUE}, jitter |-> <<MinJitter, MinJitter>>]

InitTools ==
    /\ clock = 0
    /\ brk = CircuitBreaker(1, 1, 1)
    /\ last = NoCall
    /\ hist = {}
    /\ InitExecutorVars

NextTools ==
    \/ TimePasses
    \/ \E c \in CallIds : ExecuteCancelled(c, SpecToolsArgs) /\ UNCHANGED hist
    \/ \E c \in CallIds : Execute(c, SpecToolsArgs) /\ UNCHANGED hist
    \/ \E c \in CallIds : AttemptSucceeds(c) /\ UNCHANGED hist
    \/ \E c \in CallIds : AttemptFails(c) /\ hist' = hist \cup {call[c].tool}
    \/ \E c \in CallIds : AttemptCancelled(c) /\ UNCHANGED hist
    \/ \E c \in CallIds : Cancel(c) /\ UNCHANGED hist

SpecTools == InitTools /\ [][NextTools]_vars

\* SpecBurst: every caller makes one execute call for the same tool, without
\* retries or caching; the calls overlap in every possible way.  hist is the
\* list of the times at which an attempt failed, in the order of the
\* failures.
SpecBurstArgs ==
    [tools |-> {"t1"}, payloads |-> {DummyPayload("test1")}, retry_counts |-> {0},
     thresholds |-> 1..(MaxThreshold + 1), arg_ttls |-> {0}, cfg_ttls |-> {0},
     shared |-> {TRUE}, jitter |-> <<MinJitter, MinJitter>>]

NextBurst ==
    \/ TimePasses
    \/ \E c \in CallIds :
          call[c].pc = "idle" /\ Execute(c, SpecBurstArgs) /\ UNCHANGED hist
    \/ \E c \in CallIds : AttemptSucceeds(c) /\ UNCHANGED hist
    \/ \E c \in CallIds : AttemptFails(c) /\ hist' = Append(hist, clock)
    \/ \E c \in CallIds : AttemptCancelled(c) /\ UNCHANGED hist

SpecBurst == Init /\ [][NextBurst]_vars

\* ------------------------------------------- SpecBreaker: one breaker
\* last records the most recent method call on brk: its name, its argument,
\* the breaker before the call and the value returned.  hist is the list of
\* the timestamps passed to record_failure since brk was constructed.

InitBreaker ==
    /\ clock = 0
    /\ \E n \in 1..MaxThreshold, w \in 1..MaxWindow, h \in 1..MaxHalfOpen :
          brk = CircuitBreaker(n, w, h)
    /\ last = NoCall
    /\ hist = << >>
    /\ InitExecutorVars

CallRecordFailure ==
    /\ Len(hist) < MaxFailures
    /\ hist' = Append(hist, clock)
    /\ brk' = record_failure(brk, clock)
    /\ last' = [op |-> "record_failure", now |-> clock, pre |-> brk, ret |-> CLOSED]
    /\ UNCHANGED <<clock, executorVars>>

CallRecordSuccess ==
    /\ brk' = record_success(brk)
    /\ last' = [op |-> "record_success", now |-> clock, pre |-> brk, ret |-> CLOSED]
    /\ UNCHANGED <<clock, hist, executorVars>>

CallCheckAndUpdateState ==
    /\ brk' = check_and_update_state(brk, clock)
    /\ last' = [op |-> "check_and_update_state", now |-> clock, pre |-> brk,
                ret |-> check_and_update_state(brk, clock).state]
    /\ UNCHANGED <<clock, hist, executorVars>>

CallIsOpen ==
    /\ brk' = check_and_update_state(brk, clock)
    /\ last' = [op |-> "is_open", now |-> clock, pre |-> brk,
                ret |-> IF is_open(brk, clock) THEN "true" ELSE "false"]
    /\ UNCHANGED <<clock, hist, executorVars>>

NextBreaker ==
    \/ Tick
    \/ CallRecordFailure
    \/ CallRecordSuccess
    \/ CallCheckAndUpdateState
    \/ CallIsOpen

SpecBreaker == InitBreaker /\ [][NextBreaker]_vars

\* ------------------------------------------- SpecToolCache: one ToolCache
\* last records the most recent method call on cache: its name, its key, the
\* time passed as now and the value returned (NoEntry stands for None).
\* hist is the list of the set calls made since cache was constructed.
KeysOfToolCache == {make_key("t1", p) : p \in Payloads}

InitToolCache ==
    /\ clock = 0
    /\ brk = CircuitBreaker(1, 1, 1)
    /\ last = NoCall
    /\ hist = << >>
    /\ InitExecutorVars

CallSet ==
    /\ Len(hist) < MaxSets
    /\ \E key \in KeysOfToolCache, p \in Payloads, ttl_seconds \in 0..MaxTtl :
          \E result \in Results(p) :
             /\ cache' = CacheSet(cache, key, result, clock, ttl_seconds, clock)
             /\ hist' = Append(hist, [key |-> key, result |-> result,
                                      fetched_at |-> clock,
                                      ttl_seconds |-> ttl_seconds, now |-> clock])
             /\ last' = [op |-> "set", key |-> key, now |-> clock, ret |-> NoEntry]
    /\ UNCHANGED <<clock, brk, registry, call>>

CallGet ==
    /\ \E key \in KeysOfToolCache :
          /\ last' = [op |-> "get", key |-> key, now |-> clock,
                      ret |-> CacheGetValue(cache, key, clock)]
          /\ cache' = CacheGet(cache, key, clock)
    /\ UNCHANGED <<clock, brk, hist, registry, call>>

NextToolCache ==
    \/ Tick
    \/ CallSet
    \/ CallGet

SpecToolCache == InitToolCache /\ [][NextToolCache]_vars

\* --------------------------------------- SpecRegistry: one BreakerRegistry
\* get_or_create is called directly, and the callers record failures on the
\* breakers it returned.  last records the most recent call (the registry
\* before it in pre, the breaker returned in ret); hist is the list of the
\* get_or_create calls made.
InitRegistry ==
    /\ clock = 0
    /\ brk = CircuitBreaker(1, 1, 1)
    /\ last = NoCall
    /\ hist = << >>
    /\ InitExecutorVars

CallGetOrCreate ==
    /\ Len(hist) < MaxCreates
    /\ \E tool \in Tools, n \in 1..MaxThreshold, w \in 1..MaxWindow :
          LET reg == get_or_create(registry, tool, n, w, BreakerHalfOpen)
          IN  /\ registry' = reg
              /\ last' = [op |-> "get_or_create", tool |-> tool,
                          failure_threshold |-> n, window_seconds |-> w,
                          half_open_seconds |-> BreakerHalfOpen,
                          pre |-> registry, ret |-> reg[tool]]
              /\ hist' = Append(hist, [tool |-> tool, failure_threshold |-> n,
                                       window_seconds |-> w,
                                       half_open_seconds |-> BreakerHalfOpen])
    /\ UNCHANGED <<clock, brk, cache, call>>

CallFailureOnReturned ==
    /\ \E tool \in Tools :
          /\ registry[tool] # NoBreaker
          /\ Len(registry[tool].failure_times) < MaxThreshold
          /\ registry' = [registry EXCEPT ![tool] = record_failure(@, clock)]
          /\ last' = [op |-> "record_failure", tool |-> tool, pre |-> registry,
                      ret |-> NoBreaker]
    /\ UNCHANGED <<clock, brk, hist, cache, call>>

NextRegistry ==
    \/ TimePasses
    \/ CallGetOrCreate
    \/ CallFailureOnReturned

SpecRegistry == InitRegistry /\ [][NextRegistry]_vars

\* ------------------------------------------------ SpecKey: make_key
\* Two (tool name, payload) pairs are chosen, then make_key is applied to
\* both.  last holds the arguments and the keys.
PayloadsOfKey ==
    {d \in UNION {[1..n -> {<<f, v>> : f \in {FieldOrder[i] : i \in 1..Len(FieldOrder)},
                                         v \in FieldValues}] : n \in 1..MaxFields} :
        \A i, j \in 1..Len(d) : i # j => d[i][1] # d[j][1]}

InitKey ==
    /\ clock = 0
    /\ brk = CircuitBreaker(1, 1, 1)
    /\ hist = << >>
    /\ InitExecutorVars
    /\ \E t1 \in Tools, t2 \in Tools, p1 \in PayloadsOfKey, p2 \in PayloadsOfKey :
          last = [op |-> "args", tool1 |-> t1, payload1 |-> p1,
                  tool2 |-> t2, payload2 |-> p2, key1 |-> "none", key2 |-> "none"]

CallMakeKey ==
    /\ last.op = "args"
    /\ last' = [last EXCEPT !.op = "make_key",
                            !.key1 = make_key(last.tool1, last.payload1),
                            !.key2 = make_key(last.tool2, last.payload2)]
    /\ UNCHANGED <<clock, brk, hist, executorVars>>

NextKey == CallMakeKey

SpecKey == InitKey /\ [][NextKey]_vars

\* ------------------------------------------------ CircuitBreaker claims
\* Set of the elements of a sequence.
Range(seq) == {seq[i] : i \in 1..Len(seq)}

\* C2: on a breaker constructed Closed with failure_threshold = N, the N-th
\* record_failure, when the N timestamps span less than window_seconds,
\* leaves the state Open with opened_at the N-th timestamp; while fewer than
\* N failures have been recorded the state is Closed.
C2_OpensAtThreshold ==
    LET N == brk.failure_threshold
    IN  /\ (/\ last.op = "record_failure"
            /\ Len(hist) = N
            /\ hist[N] - hist[1] < brk.window_seconds)
           => (brk.state = OPEN /\ brk.opened_at = hist[N])
        /\ Len(hist) < N => brk.state = CLOSED

C2_Witness ==
    /\ last.op = "record_failure"
    /\ brk.failure_threshold = 2
    /\ Len(hist) = 2
    /\ hist[1] < hist[2]
    /\ hist[2] - hist[1] < brk.window_seconds
    /\ brk.state = OPEN

\* C4: a record_failure(now) on a Half-Open breaker leaves it Open with
\* opened_at = now, whatever the earlier failure timestamps and parameters.
C4_FailedProbeReopens ==
    (last.op = "record_failure" /\ last.pre.state = HALF_OPEN)
        => (brk.state = OPEN /\ brk.opened_at = last.now)

\* C6: record_success on a Half-Open breaker sets the state Closed, empties
\* failure_times and unsets opened_at.
C6_SuccessClosesHalfOpen ==
    (last.op = "record_success" /\ last.pre.state = HALF_OPEN)
        => /\ brk.state = CLOSED
           /\ brk.failure_times = << >>
           /\ brk.opened_at = None

C6_Witness ==
    /\ last.op = "record_success"
    /\ last.pre.state = HALF_OPEN
    /\ Len(last.pre.failure_times) > 0
    /\ brk.state = CLOSED

\* C7: record_success on a Closed or Open breaker changes no field.
C7_SuccessNoOpElsewhere ==
    (last.op = "record_success" /\ last.pre.state \in {CLOSED, OPEN})
        => brk = last.pre

C7_Witness ==
    /\ last.op = "record_success"
    /\ last.pre.state = CLOSED
    /\ Len(last.pre.failure_times) > 0
    /\ Len(brk.failure_times) > 0

\* C8: the only changes of state are Closed->Open and Half-Open->Open by
\* record_failure, Open->Half-Open by check_and_update_state / is_open once
\* now - opened_at >= half_open_seconds, and Half-Open->Closed by
\* record_success.
C8_OnlyLegalTransitions ==
    LET from == last.pre.state
        to == brk.state
    IN  (last.op # "none" /\ from # to) =>
          \/ /\ from \in {CLOSED, HALF_OPEN}
             /\ to = OPEN
             /\ last.op = "record_failure"
          \/ /\ from = OPEN
             /\ to = HALF_OPEN
             /\ last.op \in {"check_and_update_state", "is_open"}
             /\ last.now - last.pre.opened_at >= last.pre.half_open_seconds
          \/ /\ from = HALF_OPEN
             /\ to = CLOSED
             /\ last.op = "record_success"

C8_Witness ==
    /\ last.op = "is_open"
    /\ last.pre.state = OPEN
    /\ brk.state = HALF_OPEN

\* C9: is_open(now) returns true exactly when the state before the call is
\* Open and now - opened_at < half_open_seconds; an Open breaker whose
\* cooldown has elapsed is moved to Half-Open; Closed and Half-Open breakers
\* are left as they are.
C9_IsOpenResult ==
    last.op = "is_open" =>
        LET cooling == /\ last.pre.state = OPEN
                       /\ last.now - last.pre.opened_at < last.pre.half_open_seconds
        IN  /\ (last.ret = "true") <=> cooling
            /\ (last.pre.state = OPEN /\ ~cooling) => brk.state = HALF_OPEN
            /\ (last.pre.state # OPEN \/ cooling) => brk = last.pre

C9_Witness ==
    /\ last.op = "is_open"
    /\ last.pre.state = OPEN
    /\ last.now - last.pre.opened_at = last.pre.half_open_seconds
    /\ last.ret = "false"

\* C10 as stated: after check_and_update_state(now), is_open(now) or
\* record_failure(now), failure_times holds no timestamp older than
\* now - window_seconds.
C10_PrunedAfterAnyCheck ==
    last.op \in {"check_and_update_state", "is_open", "record_failure"} =>
        \A t \in Range(brk.failure_times) : t >= last.now - brk.window_seconds

\* C10 amended: after record_failure(now), failure_times holds no timestamp
\* at or before now - window_seconds; check_and_update_state and is_open
\* leave failure_times as it was.
C10_PrunedAfterRecordFailure ==
    /\ last.op = "record_failure" =>
          \A t \in Range(brk.failure_times) : t > last.now - brk.window_seconds
    /\ last.op \in {"check_and_update_state", "is_open"} =>
          brk.failure_times = last.pre.failure_times

C10_Witness ==
    /\ last.op = "record_failure"
    /\ Len(last.pre.failure_times) > 0
    /\ Len(brk.failure_times) = 1

\* -------------------------------------------------- ToolExecutor claims
\* Call c is entered in this step (execute runs up to its first await or to
\* its return).
Begins(c) == call[c].pc \in {"idle", "done"} /\ call'[c] # call[c]

\* C1: an execute call that is neither cancelled at entry nor served from
\* the cache, and that finds the tool's breaker Open with its cooldown not
\* elapsed, raises ToolCircuitOpenError without ever invoking fn and without
\* recording a failure on the breaker.
C1_RejectedWhenOpen ==
    [][\A c \in CallIds :
         LET t == call'[c].tool
         IN  (/\ Begins(c)
              /\ registry[t].state = OPEN
              /\ clock - registry[t].opened_at < registry[t].half_open_seconds
              /\ call'[c].outcome \notin {"ToolCancelledError", "ToolResult"})
             => /\ call'[c].pc = "done"
                /\ call'[c].outcome = "ToolCircuitOpenError"
                /\ registry'[t].failure_times = registry[t].failure_times]_vars

C1_Witness ==
    \E c \in CallIds :
        /\ call[c].pc = "done"
        /\ call[c].outcome = "ToolCircuitOpenError"
        /\ registry[call[c].tool].state = OPEN

\* C3: no invocation of fn begins while the tool's breaker is in state Open.
C3_NoInvocationWhileOpen ==
    \A c \in CallIds : call[c].pc = "running" => call[c].inv_state # OPEN

\* C5: at most one invocation of fn that began while the breaker was
\* Half-Open is in flight (its outcome not yet recorded) at any time.
C5_SingleProbe ==
    \A t \in Tools :
        Cardinality({c \in CallIds : /\ call[c].pc = "running"
                                     /\ call[c].tool = t
                                     /\ call[c].inv_state = HALF_OPEN}) <= 1

\* C11: record_failure(now) keeps, besides the new failure, exactly the
\* failures later than now - window_seconds, and changes the state only when
\* these count up to failure_threshold; so when every earlier failure is at
\* or before the cutoff, a breaker of threshold >= 2 that was Closed stays
\* Closed.
C11_OldFailuresDoNotCount ==
    last.op = "record_failure" =>
        LET old == last.pre.failure_times
            cutoff == last.now - brk.window_seconds
            recent == {i \in 1..Len(old) : old[i] > cutoff}
        IN  /\ Len(brk.failure_times) = Cardinality(recent) + 1
            /\ Cardinality(recent) + 1 < brk.failure_threshold
                  => brk.state = last.pre.state
            /\ (/\ recent = {}
                /\ brk.failure_threshold >= 2
                /\ last.pre.state = CLOSED) => brk.state = CLOSED

C11_Witness ==
    /\ last.op = "record_failure"
    /\ brk.failure_threshold = 2
    /\ last.pre.state = CLOSED
    /\ Len(last.pre.failure_times) = 1
    /\ last.pre.failure_times[1] = last.now - brk.window_seconds
    /\ brk.state = CLOSED
    /\ brk.failure_times = <<last.now>>

\* The step is one in which fn is invoked by call c.
Invokes(c) == call[c].pc # "running" /\ call'[c].pc = "running"

\* The step is one in which the invocation of fn awaited by call c ends in
\* one of the ways of the set how.
FnEnds(c, how) ==
    /\ call[c].pc = "running"
    /\ call'[c].pc # "running"
    /\ call'[c].fn_outcome \in how

\* C16: an execute call made with a token that is already cancelled raises
\* ToolCancelledError without invoking fn and without touching the cache; a
\* breaker it creates is Closed with no failures and an existing breaker is
\* left as it was.  A call with a token that is not cancelled which finds the
\* breaker absent or Closed invokes fn (unless it is served from the cache),
\* and when that fn returns the call returns fn's value.
C16_CancelledAtEntry ==
    [][\A c \in CallIds :
         LET t == call'[c].tool
         IN  /\ (Begins(c) /\ call'[c].cancelled)
                => /\ call'[c].pc = "done"
                   /\ call'[c].outcome = "ToolCancelledError"
                   /\ call'[c].fn_outcome = "none"
                   /\ cache' = cache
                   /\ \A u \in Tools \ {t} : registry'[u] = registry[u]
                   /\ IF registry[t] = NoBreaker
                      THEN /\ registry'[t].state = CLOSED
                           /\ registry'[t].failure_times = << >>
                      ELSE registry'[t] = registry[t]
             /\ (/\ Begins(c)
                 /\ ~call'[c].cancelled
                 /\ registry[t].state \in {"absent", CLOSED})
                => \/ call'[c].pc = "running"
                   \/ call'[c].outcome = "ToolResult" /\ call'[c].cache_hit
             /\ FnEnds(c, {"returned"})
                => /\ call'[c].outcome = "ToolResult"
                   /\ call'[c].value \in Results(call[c].payload)]_vars

C16_Witness ==
    \E c, d \in CallIds :
        /\ call[c].pc = "done"
        /\ call[c].outcome = "ToolCancelledError"
        /\ call[c].cancelled
        /\ call[c].fn_outcome = "none"
        /\ registry[call[c].tool].state = CLOSED
        /\ registry[call[c].tool].failure_times = << >>
        /\ call[d].tool = call[c].tool
        /\ call[d].outcome = "ToolResult"
        /\ ~call[d].cache_hit

\* C17: when the fn awaited by an attempt raises ToolCancelledError, the
\* call ends at once with ToolCancelledError, whatever retries remain: the
\* breaker and the cache are left as they were, no backoff sleep and no
\* further invocation follow.
C17_FnCancelledPropagates ==
    [][\A c \in CallIds :
         FnEnds(c, {"cancelled"})
            => /\ call'[c].pc = "done"
               /\ call'[c].outcome = "ToolCancelledError"
               /\ registry' = registry
               /\ cache' = cache]_vars

C17_Witness ==
    \E c \in CallIds :
        /\ call[c].pc = "done"
        /\ call[c].outcome = "ToolCancelledError"
        /\ call[c].fn_outcome = "cancelled"
        /\ ~call[c].cancelled

\* C18: a call in progress whose token is set starts no further attempt and
\* no further backoff sleep: its next step ends it; from a backoff sleep it
\* ends with ToolCancelledError without another invocation of fn, and when
\* its running attempt fails with retries remaining it ends with
\* ToolCancelledError.
C18_NoAttemptAfterCancel ==
    [][\A c \in CallIds :
         (/\ call[c].cancelled
          /\ call[c].pc \in {"running", "sleeping"}
          /\ call'[c] # call[c])
            => /\ call'[c].pc = "done"
               /\ call[c].pc = "sleeping"
                     => /\ call'[c].outcome = "ToolCancelledError"
                        /\ call'[c].fn_outcome = call[c].fn_outcome
               /\ (/\ FnEnds(c, {"timeout", "error"})
                   /\ call[c].attempt < call[c].retry_count)
                     => call'[c].outcome = "ToolCancelledError"]_vars

C18_Witness ==
    \E c \in CallIds :
        /\ call[c].pc = "done"
        /\ call[c].outcome = "ToolCancelledError"
        /\ call[c].cancelled
        /\ call[c].fn_outcome \in {"timeout", "error"}

\* C19: when the token is set while fn is running and fn then returns, the
\* call returns the fresh ToolResult, a Half-Open breaker is closed and
\* reset (any other breaker state is kept), and with caching enabled the
\* result is stored in the cache.
C19_CancelDoesNotInterrupt ==
    [][\A c \in CallIds :
         (call[c].cancelled /\ FnEnds(c, {"returned"}))
            => LET k == call[c]
                   key == make_key(k.tool, k.payload)
                   b == registry[k.tool]
                   b1 == registry'[k.tool]
               IN  /\ call'[c].outcome = "ToolResult"
                   /\ ~call'[c].cache_hit
                   /\ call'[c].value \in Results(k.payload)
                   /\ IF b.state = HALF_OPEN
                      THEN /\ b1.state = CLOSED
                           /\ b1.failure_times = << >>
                           /\ b1.opened_at = None
                      ELSE b1 = b
                   /\ (k.ttl > 0 /\ k.shared)
                         => /\ cache'[key].result = call'[c].value
                            /\ cache'[key].fetched_at = call'[c].fetched_at
                            /\ cache'[key].ttl_seconds = k.ttl]_vars

C19_Witness ==
    \E c \in CallIds :
        /\ call[c].pc = "done"
        /\ call[c].outcome = "ToolResult"
        /\ ~call[c].cache_hit
        /\ call[c].cancelled
        /\ call[c].fn_outcome = "returned"
        /\ cache[make_key(call[c].tool, call[c].payload)] # NoEntry
        /\ cache[make_key(call[c].tool, call[c].payload)].result = call[c].value

\* C20: the invocations of fn by one call are numbered 0, 1, ... by attempt
\* and none has a number above retry_count; a failed attempt of a call whose
\* token is not set is followed by a backoff sleep and another invocation
\* while attempt < retry_count, and ends the call with ToolTimeoutError or
\* ToolExecutionError when attempt = retry_count; an attempt whose fn
\* returns ends the call.
C20_AtMostRetryCountPlusOne ==
    [][\A c \in CallIds :
         /\ Invokes(c)
               => /\ call'[c].attempt = IF call[c].pc = "sleeping"
                                        THEN call[c].attempt + 1 ELSE 0
                  /\ call'[c].attempt <= call'[c].retry_count
         /\ (FnEnds(c, {"timeout", "error"}) /\ ~call[c].cancelled)
               => IF call[c].attempt < call[c].retry_count
                  THEN call'[c].pc = "sleeping"
                  ELSE /\ call'[c].pc = "done"
                       /\ call'[c].outcome \in {"ToolTimeoutError", "ToolExecutionError"}
         /\ (/\ call[c].pc = "sleeping"
             /\ ~call'[c].cancelled
             /\ call'[c] # call[c]) => call'[c].pc = "running"
         /\ FnEnds(c, {"returned"}) => call'[c].pc = "done"]_vars

C20_Witness ==
    \E c \in CallIds :
        /\ call[c].pc = "running"
        /\ call[c].retry_count >= 1
        /\ call[c].attempt = call[c].retry_count
        /\ ~call[c].cancelled

\* The fields of a payload as a set of <<field, value>> pairs.
FieldsOf(payload) == {payload[i] : i \in 1..Len(payload)}

\* C14: for one tool name, two payloads with the same field values yield
\* the same key whatever the order of their fields; two payloads that differ
\* in a field, or two tool names that differ, yield different keys.
C14_KeyOfCanonicalFields ==
    last.op = "make_key" =>
        (last.key1 = last.key2
            <=> /\ last.tool1 = last.tool2
                /\ FieldsOf(last.payload1) = FieldsOf(last.payload2))

C14_Witness ==
    /\ last.op = "make_key"
    /\ last.tool1 = last.tool2
    /\ last.payload1 # last.payload2
    /\ FieldsOf(last.payload1) = FieldsOf(last.payload2)
    /\ last.key1 = last.key2

\* The largest element of a non-empty set of integers.
Max(S) == CHOOSE x \in S : \A y \in S : y <= x

\* C13: get(key, now) returns the value of the latest set(key, v, T, t0)
\* when t0 <= now < t0 + T, and returns None when now >= t0 + T or when no
\* set was made on the key; a value set with T = 0 is never returned.
C13_ServedWithinTtl ==
    last.op = "get" =>
        LET sets == {i \in 1..Len(hist) : hist[i].key = last.key}
        IN  IF sets = {}
            THEN last.ret = NoEntry
            ELSE LET s == hist[Max(sets)]
                 IN  /\ (s.now <= last.now /\ last.now < s.now + s.ttl_seconds)
                           => /\ last.ret # NoEntry
                              /\ last.ret.result = s.result
                              /\ last.ret.fetched_at = s.fetched_at
                     /\ last.now >= s.now + s.ttl_seconds => last.ret = NoEntry
                     /\ s.ttl_seconds = 0 => last.ret = NoEntry

C13_Witness ==
    /\ last.op = "get"
    /\ last.ret # NoEntry
    /\ Len(hist) = MaxSets
    /\ \A i \in 1..Len(hist) : hist[i].key = last.key
    /\ hist[1].result # hist[Len(hist)].result
    /\ last.ret.result = hist[Len(hist)].result

\* C12: an execute call (token not cancelled, caching enabled) that finds a
\* fresh cache entry for its key while the breaker of its tool is Open
\* returns the cached value with cache_hit = true: it does not invoke fn,
\* does not raise, and leaves every breaker as it was.
C12_CacheBeforeBreaker ==
    [][\A c \in CallIds :
         LET t == call'[c].tool
             e == cache[make_key(t, call'[c].payload)]
         IN  (/\ Begins(c)
              /\ ~call'[c].cancelled
              /\ registry[t].state = OPEN
              /\ e # NoEntry
              /\ clock - e.cached_at < e.ttl_seconds)
                => /\ call'[c].pc = "done"
                   /\ call'[c].outcome = "ToolResult"
                   /\ call'[c].cache_hit
                   /\ call'[c].value = e.result
                   /\ call'[c].fn_outcome = "none"
                   /\ registry' = registry]_vars

C12_Witness ==
    \E c \in CallIds :
        /\ call[c].pc = "done"
        /\ call[c].outcome = "ToolResult"
        /\ call[c].cache_hit
        /\ registry[call[c].tool].state = OPEN
        /\ registry[call[c].tool].opened_at < call[c].now

\* C15: a result returned when fn returns has cache_hit = false and
\* fetched_at equal to the time fn returned; a result returned without
\* invoking fn has cache_hit = true and the value and fetched_at of the cache
\* entry; and the value and fetched_at of an entry written to the cache are
\* those of the fresh result returned in the same step.
C15_Provenance ==
    [][/\ \A c \in CallIds :
             /\ FnEnds(c, {"returned"})
                   => /\ call'[c].outcome = "ToolResult"
                      /\ ~call'[c].cache_hit
                      /\ call'[c].fetched_at = clock
             /\ (Begins(c) /\ call'[c].outcome = "ToolResult")
                   => LET e == cache[make_key(call'[c].tool, call'[c].payload)]
                      IN  /\ call'[c].cache_hit
                          /\ e # NoEntry
                          /\ call'[c].value = e.result
                          /\ call'[c].fetched_at = e.fetched_at
       /\ \A key \in Keys :
             (cache'[key] # cache[key] /\ cache'[key] # NoEntry)
                => \E d \in CallIds :
                      /\ FnEnds(d, {"returned"})
                      /\ make_key(call[d].tool, call[d].payload) = key
                      /\ cache'[key].result = call'[d].value
                      /\ cache'[key].fetched_at = call'[d].fetched_at]_vars

C15_Witness ==
    \E c \in CallIds :
        /\ call[c].pc = "done"
        /\ call[c].outcome = "ToolResult"
        /\ call[c].cache_hit
        /\ call[c].fetched_at < call[c].now

\* C22: an attempt that ends in a timeout or in an exception other than
\* ToolCancelledError appends exactly one timestamp, the current time, to the
\* failures of the tool's breaker (after the pruning of record_failure),
\* whether or not a retry follows; every other step of a call adds no
\* failure to any breaker (a success on a Half-Open breaker clears them).
C22_FailuresRecorded ==
    [][\A c \in CallIds :
         /\ FnEnds(c, {"timeout", "error"})
               => LET b == registry[call[c].tool]
                      b1 == registry'[call[c].tool]
                  IN  /\ b1.failure_times =
                            Append(SelectSeq(b.failure_times,
                                             LAMBDA x : x > clock - b.window_seconds),
                                   clock)
                      /\ Len(b1.failure_times) >= b.failure_threshold
                            => b1.state = OPEN /\ b1.opened_at = clock
         /\ (call'[c] # call[c] /\ ~FnEnds(c, {"timeout", "error"}))
               => \A u \in Tools :
                     IF registry[u] = NoBreaker
                     THEN registry'[u] = NoBreaker \/ registry'[u].failure_times = << >>
                     ELSE registry'[u].failure_times
                             \in {registry[u].failure_times, << >>}]_vars

C22_Witness ==
    \E c \in CallIds :
        LET b == registry[call[c].tool]
        IN  /\ call[c].pc = "done"
            /\ call[c].outcome \in {"ToolTimeoutError", "ToolExecutionError"}
            /\ \A d \in CallIds \ {c} : call[d].pc = "idle"
            /\ b.failure_threshold = 2
            /\ b.failure_times = <<clock, clock>>
            /\ b.state = OPEN

\* C23: a call ends with ToolTimeoutError only when every one of its
\* attempts timed out, and with ToolExecutionError only when fn raised an
\* error in every one of its attempts.
C23_KindOfEveryAttempt ==
    [][\A c \in CallIds :
         (FnEnds(c, {"timeout", "error"}) /\ call'[c].pc = "done")
            => LET all == call[c].kinds \cup {call'[c].fn_outcome}
               IN  /\ call'[c].outcome = "ToolTimeoutError" => all = {"timeout"}
                   /\ call'[c].outcome = "ToolExecutionError" => all = {"error"}]_vars

\* C29: an execute call made with a token that is already cancelled leaves
\* the cache, every existing breaker and the set of tool names of the
\* registry as they were.
C29_CancelledCallTouchesNothing ==
    [][\A c \in CallIds :
         (Begins(c) /\ call'[c].cancelled)
            => /\ cache' = cache
               /\ {t \in Tools : registry'[t] # NoBreaker}
                     = {t \in Tools : registry[t] # NoBreaker}
               /\ \A t \in Tools : registry[t] # NoBreaker => registry'[t] = registry[t]]_vars

\* C21: a backoff sleep begins only when an attempt has failed and
\* attempt < retry_count, and its duration lies between retry_jitter_min_ms
\* and retry_jitter_max_ms; such a failure of a call whose token is not set
\* is always followed by the sleep; the sleep ends in the next invocation of
\* fn or in ToolCancelledError; and every invocation after the first comes
\* out of exactly one sleep (attempt grows only when a sleep ends).
C21_BackoffSleeps ==
    [][\A c \in CallIds :
         /\ (call[c].pc # "sleeping" /\ call'[c].pc = "sleeping")
               => /\ FnEnds(c, {"timeout", "error"})
                  /\ call[c].attempt < call[c].retry_count
                  /\ call'[c].sleep_ms >= call[c].jitter_min
                  /\ call'[c].sleep_ms <= call[c].jitter_max
         /\ (/\ FnEnds(c, {"timeout", "error"})
             /\ call[c].attempt < call[c].retry_count
             /\ ~call[c].cancelled) => call'[c].pc = "sleeping"
         /\ (call[c].pc = "sleeping" /\ call'[c].pc # "sleeping")
               => \/ Invokes(c) /\ call'[c].attempt = call[c].attempt + 1
                  \/ call'[c].outcome = "ToolCancelledError"
         /\ call'[c].attempt > call[c].attempt => call[c].pc = "sleeping"
         /\ (Invokes(c) /\ call'[c].attempt > 0) => call[c].pc = "sleeping"]_vars

C21_Witness ==
    \E c \in CallIds :
        /\ call[c].pc = "running"
        /\ call[c].retry_count = 1
        /\ call[c].attempt = 1
        /\ call[c].kinds # {}
        /\ call[c].jitter_min < call[c].jitter_max
        /\ \E d \in CallIds : call[d].pc = "sleeping" /\ call[d].sleep_ms = call[d].jitter_max

\* C24: a call that has ended has exactly one of the five outcomes and a
\* call that has not ended has none; a ToolResult is returned only in the
\* step in which fn returns or in a step that finds a fresh cache entry with
\* that value, and its value is never the default.
Outcomes ==
    {"ToolResult", "ToolTimeoutError", "ToolCircuitOpenError",
     "ToolCancelledError", "ToolExecutionError"}

C24_FiveOutcomes ==
    [][\A c \in CallIds :
         call'[c] # call[c]
            => /\ call'[c].pc = "done" => call'[c].outcome \in Outcomes
               /\ call'[c].pc # "done" => call'[c].outcome = "none"
               /\ call'[c].outcome = "ToolResult"
                     => /\ call'[c].value # NoResult
                        /\ \/ FnEnds(c, {"returned"}) /\ ~call'[c].cache_hit
                           \/ LET e == cache[make_key(call'[c].tool, call'[c].payload)]
                              IN  /\ Begins(c)
                                  /\ call'[c].cache_hit
                                  /\ e # NoEntry
                                  /\ clock - e.cached_at < e.ttl_seconds
                                  /\ e.result = call'[c].value]_vars

C24_Witness ==
    \E c \in CallIds :
        /\ call[c].pc = "done"
        /\ call[c].outcome = "ToolExecutionError"
        /\ call[c].fn_outcome = "none"

\* The smallest element of a non-empty set of integers.
Min(S) == CHOOSE x \in S : \A y \in S : x <= y

\* C25: get_or_create returns the breaker the registry holds for the tool
\* name; when the registry already held one, the call changes nothing in the
\* registry, whatever its parameters; when it held none, the breaker is
\* created Closed with the parameters of the call and no other entry
\* changes.  So the parameters of a tool's breaker are those of the first
\* get_or_create call for the tool.
C25_OneBreakerPerTool ==
    last.op = "get_or_create" =>
        LET t == last.tool
            first == hist[Min({i \in 1..Len(hist) : hist[i].tool = t})]
        IN  /\ last.ret = registry[t]
            /\ registry[t] # NoBreaker
            /\ registry[t].failure_threshold = first.failure_threshold
            /\ registry[t].window_seconds = first.window_seconds
            /\ registry[t].half_open_seconds = first.half_open_seconds
            /\ \A u \in Tools \ {t} : registry[u] = last.pre[u]
            /\ IF last.pre[t] # NoBreaker
               THEN registry[t] = last.pre[t]
               ELSE registry[t] = CircuitBreaker(last.failure_threshold,
                                                 last.window_seconds,
                                                 last.half_open_seconds)

C25_Witness ==
    /\ last.op = "get_or_create"
    /\ last.pre[last.tool] # NoBreaker
    /\ last.failure_threshold # registry[last.tool].failure_threshold
    /\ last.window_seconds # registry[last.tool].window_seconds
    /\ registry[last.tool].failure_times # << >>
    /\ last.ret = last.pre[last.tool]

\* The i-th call of the log failed after invoking fn.
FailedCall(i) == hist[i].outcome \in {"ToolTimeoutError", "ToolExecutionError"}

\* C26: for successive calls on a breaker of threshold N: each of the first
\* N calls invokes fn, and fails with ToolExecutionError when fn raises; when
\* all N fail within window_seconds, call N + 1, made before
\* half_open_seconds have elapsed, fails with ToolCircuitOpenError without
\* invoking fn; the first call made half_open_seconds or more after the
\* failure that opened the breaker is let through; and when that probe
\* succeeds the breaker is Closed without failures and the next N calls
\* invoke fn.
C26_OpensAndRecovers ==
    LET N == RecoveryThreshold
        n == Len(hist)
    IN  /\ \A i \in 1..n :
              /\ i <= N => hist[i].fn # "none"
              /\ hist[i].fn = "error" => hist[i].outcome = "ToolExecutionError"
              /\ hist[i].outcome = "ToolCircuitOpenError" => hist[i].fn = "none"
        /\ (/\ n > N
            /\ \A i \in 1..N : FailedCall(i)
            /\ hist[N].at - hist[1].at < BreakerWindow
            /\ hist[N + 1].now - hist[N].at < BreakerHalfOpen)
              => hist[N + 1].outcome = "ToolCircuitOpenError"
        /\ \A i \in 2..n :
              (/\ hist[i - 1].outcome = "ToolCircuitOpenError"
               /\ \E j \in 1..(i - 1) :
                     /\ FailedCall(j)
                     /\ \A k \in (j + 1)..(i - 1) : ~FailedCall(k)
                     /\ hist[i].now - hist[j].at >= BreakerHalfOpen)
                 => hist[i].fn # "none"
        /\ \A i \in 2..n :
              (/\ hist[i - 1].outcome = "ToolCircuitOpenError"
               /\ hist[i].outcome = "ToolResult")
                 => /\ \A k \in (i + 1)..n : k <= i + N => hist[k].fn # "none"
                    /\ (n = i /\ call[Caller].pc = "done")
                          => /\ registry["t1"].state = CLOSED
                             /\ registry["t1"].failure_times = << >>

C26_Witness ==
    LET N == RecoveryThreshold
    IN  /\ Len(hist) = N + 3
        /\ \A i \in 1..N : hist[i].outcome = "ToolExecutionError"
        /\ hist[N + 1].outcome = "ToolCircuitOpenError"
        /\ hist[N + 2].outcome = "ToolResult"
        /\ hist[N + 2].now >= hist[N].at + BreakerHalfOpen
        /\ hist[N + 3].fn # "none"
        /\ registry["t1"].state = CLOSED

\* C27: on a shared cache with cache_ttl_seconds > 0, a call whose fn
\* returns stores the value under the key of its tool and payload; a call
\* (token not cancelled) that finds a fresh entry under its key returns that
\* value with cache_hit = true without invoking fn; a call that finds no
\* entry under its key while the breaker is absent or Closed invokes fn,
\* whatever is stored for other payloads.
C27_SharedCacheHit ==
    [][\A c \in CallIds :
         LET e == cache[make_key(call'[c].tool, call'[c].payload)]
         IN  /\ (FnEnds(c, {"returned"}) /\ call[c].ttl > 0 /\ call[c].shared)
                   => cache'[make_key(call[c].tool, call[c].payload)]
                         = [result |-> call'[c].value, fetched_at |-> clock,
                            cached_at |-> call[c].now, ttl_seconds |-> call[c].ttl]
             /\ (/\ Begins(c)
                 /\ ~call'[c].cancelled
                 /\ e # NoEntry
                 /\ clock - e.cached_at < e.ttl_seconds)
                   => /\ call'[c].outcome = "ToolResult"
                      /\ call'[c].cache_hit
                      /\ call'[c].value = e.result
                      /\ call'[c].value \in Results(call'[c].payload)
                      /\ call'[c].fn_outcome = "none"
             /\ (/\ Begins(c)
                 /\ ~call'[c].cancelled
                 /\ e = NoEntry
                 /\ registry[call'[c].tool].state \in {"absent", CLOSED})
                   => call'[c].pc = "running"]_vars

C27_Witness ==
    \E c, d \in CallIds :
        LET e == cache[make_key(call[c].tool, call[c].payload)]
        IN  /\ call[c].pc = "done"
            /\ call[c].outcome = "ToolResult"
            /\ call[c].cache_hit
            /\ e # NoEntry
            /\ call[c].value = e.result
            /\ call[d].tool = call[c].tool
            /\ call[d].payload # call[c].payload
            /\ call[d].pc = "running"
            /\ call[d].now > e.fetched_at
            /\ call[d].now - e.cached_at < e.ttl_seconds

\* C28: every cache entry holds a value fn can return for the payload of
\* its key, and an entry is created or overwritten only in a step in which
\* the fn of a call for that key returns, with the value returned; the only
\* other change of the cache is the removal of an entry.
C28_OnlySuccessesCached ==
    [][/\ \A t \in Tools, q \in Payloads :
             cache'[make_key(t, q)] # NoEntry
                => cache'[make_key(t, q)].result \in Results(q)
       /\ \A key \in Keys :
             cache'[key] # cache[key]
                => \/ cache'[key] = NoEntry
                   \/ \E c \in CallIds :
                         /\ FnEnds(c, {"returned"})
                         /\ key = make_key(call[c].tool, call[c].payload)
                         /\ cache'[key].result = call'[c].value
                         /\ call'[c].outcome = "ToolResult"]_vars

C28_Witness ==
    /\ \A q \in Payloads : cache[make_key("t1", q)] # NoEntry
    /\ \E c \in CallIds :
          /\ call[c].pc = "done"
          /\ call[c].outcome \in {"ToolTimeoutError", "ToolExecutionError",
                                  "ToolCancelledError", "ToolCircuitOpenError"}
          /\ call[c].fn_outcome # "none"

C31_TtlFromFetchTime ==
    [][\A c \in CallIds :
         LET e == cache[make_key(call'[c].tool, call'[c].payload)]
         IN  (/\ Begins(c)
              /\ ~call'[c].cancelled
              /\ e # NoEntry
              /\ clock < e.fetched_at + e.ttl_seconds)
                => /\ call'[c].outcome = "ToolResult"
                   /\ call'[c].cache_hit
                   /\ call'[c].value = e.result]_vars

\* C32: a call made without a cache argument (token not cancelled, caching
\* enabled) is never a cache hit, whatever the shared cache holds, and
\* invokes fn when the breaker is absent or Closed; it leaves the shared
\* cache as it was, also when its fn returns; and its failed attempt is
\* recorded on the registry's breaker of the tool, next to the failures of the
\* other calls.
C32_FreshCachePerCall ==
    [][\A c \in CallIds :
         LET t == call'[c].tool
         IN  /\ (Begins(c) /\ ~call'[c].cancelled /\ ~call'[c].shared)
                   => /\ ~call'[c].cache_hit
                      /\ cache' = cache
                      /\ registry[t].state \in {"absent", CLOSED}
                            => call'[c].pc = "running"
             /\ (FnEnds(c, {"returned"}) /\ ~call[c].shared)
                   => /\ ~call'[c].cache_hit
                      /\ call'[c].outcome = "ToolResult"
                      /\ cache' = cache
             /\ (FnEnds(c, {"timeout", "error"}) /\ ~call[c].shared)
                   => /\ Len(registry'[t].failure_times) > 0
                      /\ registry'[t].failure_times[Len(registry'[t].failure_times)] = clock
                      /\ \A i \in 1..Len(registry[t].failure_times) :
                            registry[t].failure_times[i] > clock - BreakerWindow
                               => registry[t].failure_times[i]
                                     \in Range(registry'[t].failure_times)
                                  /\ Len(registry'[t].failure_times) >= 2]_vars

C32_Witness ==
    \E c, d \in CallIds :
        /\ c # d
        /\ call[c].pc = "done" /\ call[d].pc = "done"
        /\ ~call[c].shared /\ ~call[d].shared
        /\ ~call[c].cancelled /\ ~call[d].cancelled
        /\ call[c].outcome = "ToolResult" /\ ~call[c].cache_hit
        /\ call[d].outcome \in {"ToolTimeoutError", "ToolExecutionError"}
        /\ cache[make_key(call[c].tool, call[c].payload)] # NoEntry
        /\ Len(registry["t1"].failure_times) = 2
        /\ registry["t1"].state = OPEN

\* The step is a get (a set) made directly on the cache in SpecToolCache.
GetStep == clock' = clock /\ hist' = hist /\ last'.op = "get"
SetStep == hist' # hist /\ last'.op = "set"

\* C33: get(key, now) removes the entry of key when it exists and
\* now - cached_at >= ttl_seconds, and otherwise leaves it as it is (fresh
\* or absent); it changes the entry of no other key; set(key, ...) changes
\* the entry of key alone.
C33_GetSetFrame ==
    [][/\ GetStep
             => LET key == last'.key
                    e == cache[key]
                IN  /\ \A k \in Keys \ {key} : cache'[k] = cache[k]
                    /\ IF e # NoEntry /\ clock - e.cached_at >= e.ttl_seconds
                       THEN cache'[key] = NoEntry /\ last'.ret = NoEntry
                       ELSE cache'[key] = e
       /\ SetStep
             => /\ \A k \in Keys \ {last'.key} : cache'[k] = cache[k]
                /\ cache'[last'.key] # NoEntry]_vars

C33_Witness ==
    /\ last.op = "get"
    /\ last.now = clock
    /\ \E i \in 1..Len(hist) : hist[i].key = last.key /\ hist[i].ttl_seconds > 0
    /\ cache[last.key] = NoEntry
    /\ \E k \in Keys \ {last.key} :
          /\ cache[k] # NoEntry
          /\ clock - cache[k].cached_at >= cache[k].ttl_seconds

\* The log_attempt calls among the observer calls of a caller.
LogAttempts(calls) == SelectSeq(calls, LAMBDA e : e[1] = "log_attempt")

\* C34: the attempts of one call follow one another: the step in which an
\* attempt ends makes the breaker update (record_failure or record_success)
\* and the metric and log calls of that attempt and starts no attempt; the
\* next attempt starts in a later step, out of the backoff sleep, with the
\* number of the previous one plus one, every earlier attempt being logged
\* as failed, and itself changes neither breaker nor log; and while the fn
\* of a call is in flight the call invokes no other.
C34_SequentialAttempts ==
    [][\A c \in CallIds :
         LET k == call[c]
             k1 == call'[c]
             t == k.tool
             logged == LogAttempts(hist[c])
         IN  /\ FnEnds(c, {"timeout", "error"})
                   => /\ registry'[t] = record_failure(registry[t], clock)
                      /\ Len(hist'[c]) = Len(hist[c]) + 2
                      /\ hist'[c][Len(hist'[c])][1] = "log_attempt"
                      /\ hist'[c][Len(hist'[c])][2] = k.attempt + 1
                      /\ k1.pc \in {"sleeping", "done"}
             /\ FnEnds(c, {"returned"})
                   => /\ registry'[t] = record_success(registry[t])
                      /\ Len(hist'[c]) = Len(hist[c]) + 2
                      /\ hist'[c][Len(hist'[c])] = <<"log_attempt", k.attempt + 1, "success">>
                      /\ k1.pc = "done"
             /\ (Invokes(c) /\ k1.attempt > 0)
                   => /\ k.pc = "sleeping"
                      /\ k1.attempt = k.attempt + 1
                      /\ registry' = registry
                      /\ hist' = hist
                      /\ Len(logged) = k1.attempt
                      /\ \A i \in 1..Len(logged) :
                            /\ logged[i][2] = i
                            /\ logged[i][3] \in {"timeout", "error"}
             /\ (k.pc = "running" /\ k1.pc = "running")
                   => k1.attempt = k.attempt /\ hist'[c] = hist[c]]_vars

C34_Witness ==
    \E c, d \in CallIds :
        /\ c # d
        /\ call[c].pc = "running"
        /\ call[c].attempt = MaxRetry
        /\ Len(LogAttempts(hist[c])) = MaxRetry
        /\ call[d].pc = "running"
        /\ call[d].attempt = 0
        /\ Len(hist[d]) = 0
        /\ Len(registry["t1"].failure_times) > 0

\* The outcome an attempt is logged with, by the way its fn ended.
LoggedAs(fn_outcome) == IF fn_outcome = "returned" THEN "success" ELSE fn_outcome

\* C35: a call served from the cache and a call rejected by the breaker make
\* one log_attempt call each, with attempt number 0, and any other call
\* starts with none; every invocation of fn that ends (fn returns, times
\* out, raises an error or raises ToolCancelledError) adds exactly one
\* log_attempt call, whose number is the number of the invocation, counted
\* from 1 and at most retry_count + 1; no other step of the call logs.
C35_OneLogPerAttempt ==
    [][\A c \in CallIds :
         LET k == call[c]
             k1 == call'[c]
             old == LogAttempts(hist[c])
             new == LogAttempts(hist'[c])
             ends == FnEnds(c, {"returned", "timeout", "error", "cancelled"})
         IN  /\ (Begins(c) /\ k1.outcome = "ToolResult")
                   => new = << <<"log_attempt", 0, "cache_hit">> >>
             /\ (Begins(c) /\ k1.outcome = "ToolCircuitOpenError")
                   => new = << <<"log_attempt", 0, "breaker_open">> >>
             /\ (Begins(c) /\ k1.outcome \notin {"ToolResult", "ToolCircuitOpenError"})
                   => new = << >>
             /\ ends
                   => /\ new = Append(old, <<"log_attempt", Len(old) + 1,
                                             LoggedAs(k1.fn_outcome)>>)
                      /\ Len(new) = k.attempt + 1
                      /\ Len(new) <= k.retry_count + 1
             /\ (~Begins(c) /\ ~ends) => new = old]_vars

C35_Witness ==
    \E c, d \in CallIds :
        /\ call[c].pc = "done"
        /\ call[c].outcome = "ToolCancelledError"
        /\ call[c].fn_outcome = "cancelled"
        /\ Len(LogAttempts(hist[c])) = MaxRetry + 1
        /\ LogAttempts(hist[c])[MaxRetry + 1] = <<"log_attempt", MaxRetry + 1, "cancelled">>
        /\ call[d].pc = "done"
        /\ LogAttempts(hist[d]) = << <<"log_attempt", 0, "breaker_open">> >>

\* C36: every call in progress (awaiting fn or a backoff sleep) ends with a
\* ToolResult or one of the four errors, whatever the other calls do, given
\* that every awaited fn ends and every awaited sleep returns; and a call
\* makes at most retry_count + 1 invocations of fn and begins at most
\* retry_count backoff sleeps.
C36_Terminates ==
    /\ [](\A c \in CallIds :
             /\ hist[c].attempts <= hist[c].retry_count + 1
             /\ hist[c].sleeps <= hist[c].retry_count)
    /\ \A c \in CallIds :
          (call[c].pc \in {"running", "sleeping"})
             ~> (call[c].pc = "done" /\ call[c].outcome \in Outcomes)

C36_Witness ==
    \E c, d \in CallIds :
        /\ call[c].pc = "done"
        /\ call[c].outcome \in {"ToolTimeoutError", "ToolExecutionError"}
        /\ hist[c].retry_count = MaxRetry
        /\ hist[c].attempts = MaxRetry + 1
        /\ hist[c].sleeps = MaxRetry
        /\ call[d].pc = "sleeping"

\* C37: whatever calls of record_failure, record_success,
\* check_and_update_state and is_open a breaker of failure_threshold >= 1 has
\* received: when its state is Closed, opened_at is unset and failure_times
\* holds fewer than failure_threshold timestamps; when its state is Open or
\* Half-Open, opened_at is set.
C37_BreakerInvariant ==
    /\ brk.failure_threshold >= 1
    /\ brk.state = CLOSED
          => /\ brk.opened_at = None
             /\ Len(brk.failure_times) < brk.failure_threshold
    /\ brk.state \in {OPEN, HALF_OPEN} => brk.opened_at # None

C37_Witness ==
    /\ last.op = "record_failure"
    /\ last.pre.state = CLOSED
    /\ brk.state = CLOSED
    /\ Len(hist) > brk.failure_threshold
    /\ Len(brk.failure_times) = brk.failure_threshold - 1
    /\ Len(brk.failure_times) >= 1

\* C38: a step of an execute call for a tool leaves the breaker of every
\* other tool as it was (state, failure_times, opened_at), so a breaker is
\* out of Closed only when an attempt of its own tool has failed, and a call
\* is rejected with ToolCircuitOpenError only when an attempt for its own
\* tool has failed, however many failures the other tools have had.
C38_BreakersIsolated ==
    [][/\ \A c \in CallIds :
             LET t == IF Begins(c) THEN call'[c].tool ELSE call[c].tool
             IN  /\ call'[c] # call[c]
                    => \A u \in Tools \ {t} : registry'[u] = registry[u]
                 /\ (Begins(c) /\ call'[c].outcome = "ToolCircuitOpenError")
                       => /\ t \in hist
                          /\ registry[t].state = OPEN
       /\ \A u \in Tools :
             (registry'[u] # NoBreaker /\ u \notin hist')
                => /\ registry'[u].state = CLOSED
                   /\ registry'[u].failure_times = << >>]_vars

C38_Witness ==
    \E c, d \in CallIds :
        /\ call[c].pc = "done"
        /\ call[c].outcome = "ToolCircuitOpenError"
        /\ registry[call[c].tool].state = OPEN
        /\ Len(registry[call[c].tool].failure_times) = MaxThreshold
        /\ call[d].tool # call[c].tool
        /\ call[d].pc = "done"
        /\ call[d].outcome = "ToolResult"
        /\ call[d].tool \notin hist
        /\ registry[call[d].tool].state = CLOSED

\* The calls whose attempt has failed.
FailedCalls ==
    {c \in CallIds : /\ call[c].pc = "done"
                     /\ call[c].outcome \in {"ToolTimeoutError", "ToolExecutionError"}}

\* C39: when the attempt of a call fails, the attempts of K concurrent calls
\* for the tool having failed by then (this one included) at times that span
\* less than window_seconds and no call having succeeded, the breaker holds
\* the K timestamps in the order of the failures, and it is Open, opened at
\* the time of this failure, when K >= failure_threshold and Closed
\* otherwise, whatever the order in which the calls began and failed.
C39_NoLostUpdate ==
    [][\A c \in CallIds :
         LET b == registry'["t1"]
             K == Cardinality(FailedCalls')
         IN  (/\ FnEnds(c, {"timeout", "error"})
              /\ \A d \in CallIds : call[d].outcome # "ToolResult"
              /\ hist'[Len(hist')] - hist'[1] < b.window_seconds)
                => /\ Len(hist') = K
                   /\ b.failure_times = hist'
                   /\ IF K >= b.failure_threshold
                      THEN b.state = OPEN /\ b.opened_at = clock
                      ELSE b.state = CLOSED /\ b.opened_at = None]_vars

C39_Witness ==
    /\ FailedCalls = CallIds
    /\ Len(hist) = NumCalls
    /\ registry["t1"].failure_threshold = NumCalls
    /\ registry["t1"].failure_times = hist
    /\ registry["t1"].state = OPEN

====
